---- MODULE Spec2Model ----
(***************************************************************************)
(* synthtribe2midi: the pattern codecs of the Behringer TD-3 (.seq and     *)
(* .syx), the MIDI quantization engine and the conversion orchestrator.    *)
(*                                                                         *)
(* Conventions.  A Go []byte is a sequence of numbers 0..255; offset k of  *)
(* the Go slice is element k+1 of the sequence (operator At).  A nil slice *)
(* is the empty sequence.  A nil *Pattern is NilPattern.  A nil error is   *)
(* NoErr; every other error is the constant part of its message.  A Go     *)
(* run-time panic is the outcome panic = TRUE of a call.                   *)
(***************************************************************************)
EXTENDS Integers, Sequences, FiniteSets, TLC

VARIABLES
    input,      \* what the caller starts from: a buffer, a pattern or two paths
    cur,        \* what the caller holds now: the buffer or pattern last returned
    log,        \* the calls made so far, each with what it returned
    m,          \* the fields of the caller's MIDIConverter (of the tea Model
                \* under SpecTui)
    device,     \* Converter.device
    files       \* the file system seen by ConvertFile: path -> file

vars == <<input, cur, log, m, device, files>>

----------------------------------------------------------------------------
(* Machine arithmetic                                                      *)

Pow2(n) == 2 ^ n

\* (v >> i) & 1
Bit(v, i) == (v \div Pow2(i)) % 2

\* v & 0x7F, v & 0x0F on non-negative v
And7F(v) == v % 128
And0F(v) == v % 16

\* uint8(v)
U8(v) == v % 256

\* data[off] of a Go slice
At(data, off) == data[off + 1]

NoErr == "nil"

----------------------------------------------------------------------------
(* Pattern model                                                           *)

\* converter.Step{}: the zero value
ZeroStep ==
    [Note |-> 0, Accent |-> FALSE, Slide |-> FALSE, Gate |-> FALSE,
     Tie |-> FALSE, Velocity |-> 0]

\* Tempo is a float64; it is kept as the exact fraction n/d
Bpm(n) == [n |-> n, d |-> 1]

\* a nil *Pattern
NilPattern ==
    [nil |-> TRUE, Name |-> "", Steps |-> <<>>, Length |-> 0,
     Tempo |-> Bpm(0), DeviceID |-> 0]

----------------------------------------------------------------------------
(* TD-3 constants (devices/td3.go)                                         *)

TD3DeviceID == 0
TD3Manufacturer == 32
TD3ManufID2 == 50
TD3ModelID == 1
MaxSteps == 16

HeaderSize == 32
FillSize == 4
NotesOffset == HeaderSize + FillSize
AccentsOffset == NotesOffset + 32
SlidesOffset == AccentsOffset + 32
TripletOffset == SlidesOffset + 32
LengthOffset == TripletOffset + 2
ReservedOffset == LengthOffset + 2
TieOffset == ReservedOffset + 2
RestOffset == TieOffset + 4
TD3SeqMinSize == RestOffset + 4

SysExStart == 240
SysExEnd == 247
PatternDump == 64

td3HeaderMagic == <<35, 152, 84, 118>>

----------------------------------------------------------------------------
(* TD3.ParseSeq                                                            *)

\* an unpacking that takes the four bytes in file order
UnpackMask_NoSwap(data, off) ==
    At(data, off) + At(data, off + 1) * 16
        + At(data, off + 2) * 256 + At(data, off + 3) * 4096

\* the nibble unpacking of the tie and rest bitmasks (uint32 sums)
UnpackMask(data, off) ==
    At(data, off + 1) + At(data, off) * 16
        + At(data, off + 3) * 256 + At(data, off + 2) * 4096

\* a length that defaults for values above 16 only
SeqLengthOf_ZeroKept(data) ==
    LET seqLength == At(data, LengthOffset) * 16 + At(data, LengthOffset + 1)
    IN  IF seqLength > MaxSteps THEN MaxSteps ELSE seqLength

\* seqLength as read from the file, with the default
SeqLengthOf(data) ==
    LET seqLength == At(data, LengthOffset) * 16 + At(data, LengthOffset + 1)
    IN  IF seqLength = 0 \/ seqLength > MaxSteps THEN MaxSteps ELSE seqLength

\* midiNote := uint8(noteVal + 24); if midiNote > 127 { midiNote = 127 }
SeqMidiNote(noteVal) ==
    LET midiNote == U8(noteVal + 24)
    IN  IF midiNote > 127 THEN 127 ELSE midiNote

\* the body of the step loop of ParseSeq, for step i (0-based)
ParseSeqStep(data, i, tie, rest) ==
    LET noteIdx == NotesOffset + i * 2
        accentIdx == AccentsOffset + i * 2
        slideIdx == SlidesOffset + i * 2
        noteVal == At(data, noteIdx) * 16 + At(data, noteIdx + 1)
        isRest == Bit(rest, i) # 0
        isTie == Bit(tie, i) = 0
        hasAccent == Bit(At(data, accentIdx + 1), 0) # 0
        hasSlide == Bit(At(data, slideIdx + 1), 0) # 0
    IN  [Note |-> SeqMidiNote(noteVal),
         Accent |-> hasAccent,
         Slide |-> hasSlide,
         Gate |-> ~isRest,
         Tie |-> isTie /\ i > 0,
         Velocity |-> IF hasAccent THEN 127 ELSE 100]

\* "Check minimum size"
SeqTooShort(data) == Len(data) < TD3SeqMinSize

\* a magic check that compares the first byte only
SeqBadMagic_FirstByte(data) == At(data, 0) # td3HeaderMagic[1]

\* "Verify header magic"
SeqBadMagic(data) ==
    \/ At(data, 0) # td3HeaderMagic[1]
    \/ At(data, 1) # td3HeaderMagic[2]
    \/ At(data, 2) # td3HeaderMagic[3]
    \/ At(data, 3) # td3HeaderMagic[4]

ParseSeq(data) ==
    IF SeqTooShort(data)
    THEN [pattern |-> NilPattern, err |-> "seq data too short"]
    ELSE IF SeqBadMagic(data)
    THEN [pattern |-> NilPattern, err |-> "wrong magic bytes"]
    ELSE
        LET seqLength == SeqLengthOf(data)
            tie == UnpackMask(data, TieOffset)
            rest == UnpackMask(data, RestOffset)
        IN  [pattern |->
                [nil |-> FALSE,
                 Name |-> "TD-3 Pattern",
                 Steps |-> [k \in 1..seqLength |->
                               ParseSeqStep(data, k - 1, tie, rest)],
                 Length |-> seqLength,
                 Tempo |-> Bpm(120),
                 DeviceID |-> TD3DeviceID],
             err |-> NoErr]

----------------------------------------------------------------------------
(* TD3.GenerateSeq                                                         *)

\* a header of the same size that starts with the device-name field
SeqHeader_NoMagic ==
    <<0, 0, 0, 8, 0, 84, 0, 68, 0, 45, 0, 51,
      0, 0, 0, 10, 0, 49, 0, 46, 0, 51, 0, 46, 0, 55, 0, 0,
      0, 112, 0, 0, 0, 0, 0, 0>>

\* bytes 0..35: magic, device name, version and fill field
SeqHeader ==
    td3HeaderMagic \o
    <<0, 0, 0, 8, 0, 84, 0, 68, 0, 45, 0, 51,
      0, 0, 0, 10, 0, 49, 0, 46, 0, 51, 0, 46, 0, 55, 0, 0,
      0, 112, 0, 0>>

\* var step converter.Step; if i < len(pattern.Steps) { step = pattern.Steps[i] }
StepOrZero(pattern, i) ==
    IF i < Len(pattern.Steps) THEN pattern.Steps[i + 1] ELSE ZeroStep

\* a note value without the octave offset
SeqNoteVal_NoOffset(note) == note

\* noteVal := int(step.Note) - 24; if noteVal < 0 { noteVal = 0 }
SeqNoteVal(note) == IF note - 24 < 0 THEN 0 ELSE note - 24

\* the four bits i..i+3 of the bitmask built by the loop: bit i is set iff
\* the field (Tie for the tie mask, Gate for the rest mask) of step i is false
MaskNibble(pattern, field, i) ==
    LET b(k) == IF ~StepOrZero(pattern, k)[field] THEN 1 ELSE 0
    IN  b(i) + b(i + 1) * 2 + b(i + 2) * 4 + b(i + 3) * 8

\* var tie, rest uint32 after the loop
MaskOf(pattern, field) ==
    MaskNibble(pattern, field, 0) + MaskNibble(pattern, field, 4) * 16
        + MaskNibble(pattern, field, 8) * 256
        + MaskNibble(pattern, field, 12) * 4096

\* the nibble bytes of a mask without the swap, lowest nibble first
PackMask_NoSwap(mask) ==
    <<And0F(mask), And0F(mask \div 16), And0F(mask \div 256),
      And0F(mask \div 4096)>>

\* the four nibble bytes of a mask, in file order
PackMask(mask) ==
    <<And0F(mask \div 16), And0F(mask), And0F(mask \div 4096),
      And0F(mask \div 256)>>

GenerateSeq(pattern) ==
    IF pattern.nil
    THEN [data |-> <<>>, err |-> "nil pattern"]
    ELSE
        LET seqLength == IF Len(pattern.Steps) > MaxSteps
                         THEN MaxSteps ELSE Len(pattern.Steps)
            tie == MaskOf(pattern, "Tie")
            rest == MaskOf(pattern, "Gate")
            byteAt(off) ==
                IF off < NotesOffset THEN SeqHeader[off + 1]
                ELSE IF off < AccentsOffset THEN
                    LET noteVal ==
                            SeqNoteVal(StepOrZero(pattern,
                                                  (off - NotesOffset) \div 2).Note)
                    IN  IF (off - NotesOffset) % 2 = 0
                        THEN U8(noteVal \div 16) ELSE U8(noteVal % 16)
                ELSE IF off < SlidesOffset THEN
                    IF (off - AccentsOffset) % 2 = 1
                       /\ StepOrZero(pattern, (off - AccentsOffset) \div 2).Accent
                    THEN 1 ELSE 0
                ELSE IF off < TripletOffset THEN
                    IF (off - SlidesOffset) % 2 = 1
                       /\ StepOrZero(pattern, (off - SlidesOffset) \div 2).Slide
                    THEN 1 ELSE 0
                ELSE IF off < LengthOffset THEN 0
                ELSE IF off = LengthOffset THEN U8(seqLength \div 16)
                ELSE IF off = LengthOffset + 1 THEN U8(seqLength % 16)
                ELSE IF off < TieOffset THEN 0
                ELSE IF off < RestOffset THEN PackMask(tie)[off - TieOffset + 1]
                ELSE PackMask(rest)[off - RestOffset + 1]
        IN  [data |-> [k \in 1..TD3SeqMinSize |-> byteAt(k - 1)],
             err |-> NoErr]

----------------------------------------------------------------------------
(* TD3.ParseSyx, TD3.parseBehringerSyx                                     *)

\* the step built from one (noteData, attrData) pair
SyxStep(noteData, attrData) ==
    [Note |-> U8(And7F(noteData) + 24),
     Accent |-> Bit(attrData, 1) # 0,
     Slide |-> Bit(attrData, 2) # 0,
     Gate |-> Bit(attrData, 0) # 0,
     Tie |-> Bit(attrData, 3) # 0,
     Velocity |-> IF Bit(attrData, 1) # 0 THEN 127 ELSE 100]

\* the number of iterations of the step loop that reach the append:
\* for i := 0; i < MaxSteps; i++ { if offset+1 >= len(data)-1 { break } ... }
SyxStepCount(data, headerLen) ==
    Cardinality({i \in 0..(MaxSteps - 1) :
                    \A j \in 0..i : ~(headerLen + j * 2 + 1 >= Len(data) - 1)})

\* pattern.Steps after the loop
SyxSteps(data, headerLen) ==
    [k \in 1..SyxStepCount(data, headerLen) |->
        SyxStep(At(data, headerLen + (k - 1) * 2),
                At(data, headerLen + (k - 1) * 2 + 1))]

\* headerLen := 8
SyxHeaderLen == 8

parseBehringerSyx(data) ==
    LET headerLen == SyxHeaderLen
    IN  IF Len(data) < headerLen + MaxSteps * 2
        THEN [pattern |-> NilPattern, err |-> "syx data too short for steps"]
        ELSE [pattern |->
                 [nil |-> FALSE,
                  Name |-> "TD-3 SysEx Pattern",
                  Steps |-> SyxSteps(data, headerLen),
                  Length |-> MaxSteps,
                  Tempo |-> Bpm(120),
                  DeviceID |-> TD3DeviceID],
              err |-> NoErr]

ParseSyx(data) ==
    IF Len(data) < 10
    THEN [pattern |-> NilPattern, err |-> "syx data too short"]
    ELSE IF At(data, 0) # SysExStart
    THEN [pattern |-> NilPattern, err |-> "missing start byte"]
    ELSE IF At(data, Len(data) - 1) # SysExEnd
    THEN [pattern |-> NilPattern, err |-> "missing end byte"]
    ELSE IF Len(data) > 4 /\ At(data, 1) = 0 /\ At(data, 2) = TD3Manufacturer
            /\ At(data, 3) = TD3ManufID2
    THEN parseBehringerSyx(data)
    ELSE [pattern |-> NilPattern, err |-> "unrecognized SysEx format"]

----------------------------------------------------------------------------
(* TD3.GenerateSyx                                                         *)

\* the note byte without the octave offset
SyxNoteByte_NoOffset(note) == And7F(note)

\* noteVal := step.Note; if noteVal >= 24 { noteVal -= 24 }; noteVal & 0x7F
SyxNoteByte(note) == And7F(IF note >= 24 THEN note - 24 ELSE note)

SyxAttrByte(step) ==
    (IF step.Gate THEN 1 ELSE 0) + (IF step.Accent THEN 2 ELSE 0)
        + (IF step.Slide THEN 4 ELSE 0) + (IF step.Tie THEN 8 ELSE 0)

\* the 32 payload bytes written by the step loop
SyxPayload(pattern) ==
    [k \in 1..(MaxSteps * 2) |->
        IF k % 2 = 1
        THEN SyxNoteByte(StepOrZero(pattern, (k - 1) \div 2).Note)
        ELSE SyxAttrByte(StepOrZero(pattern, (k - 1) \div 2))]

\* checksum ^= b over all the bytes: bit i is the parity of its occurrences
XorAll(bytes) ==
    LET parity(i) == Cardinality({k \in 1..Len(bytes) : Bit(bytes[k], i) = 1}) % 2
    IN  parity(0) + parity(1) * 2 + parity(2) * 4 + parity(3) * 8
            + parity(4) * 16 + parity(5) * 32 + parity(6) * 64 + parity(7) * 128

GenerateSyx(pattern) ==
    IF pattern.nil
    THEN [data |-> <<>>, err |-> "nil pattern"]
    ELSE
        LET payload == SyxPayload(pattern)
        IN  [data |-> <<SysExStart, 0, TD3Manufacturer, TD3ManufID2,
                        TD3DeviceID, TD3ModelID, PatternDump>>
                        \o payload
                        \o <<And7F(XorAll(payload)), SysExEnd>>,
             err |-> NoErr]

----------------------------------------------------------------------------
(* File contents.  The bytes of a .seq or .syx buffer are modelled one by   *)
(* one.  The bytes of a Standard MIDI File are read and written only by    *)
(* the smf library, so a MIDI buffer is modelled by its first four bytes   *)
(* ("MThd") together with what smf.ReadFrom makes of it: the time format   *)
(* and the tracks of (Delta, Message) events.                              *)

NoSMF == [valid |-> FALSE, metric |-> FALSE, resolution |-> 0, tracks |-> <<>>]

\* a buffer that is not a MIDI file
Raw(bytes) == [bytes |-> bytes, smf |-> NoSMF]

\* "MThd"
MThd == <<77, 84, 104, 100>>

\* a buffer smf.ReadFrom accepts; metric tells whether its time format is
\* smf.MetricTicks, and resolution is what MetricTicks.Resolution() returns
MidiFile(metric, resolution, tracks) ==
    [bytes |-> MThd,
     smf |-> [valid |-> TRUE, metric |-> metric, resolution |-> resolution,
              tracks |-> tracks]]

\* a nil []byte result
NilData == Raw(<<>>)

----------------------------------------------------------------------------
(* MIDIConverter (syx.go, second half)                                     *)

\* NewMIDIConverter()
NewMIDIConverter == [ticksPerQuarter |-> 480, tempo |-> Bpm(120)]

\* a tempo meta message
IsTempoMsg(msg) ==
    Len(msg) >= 6 /\ msg[1] = 255 /\ msg[2] = 81 /\ msg[3] = 3

MicrosOf(msg) == msg[4] * 65536 + msg[5] * 256 + msg[6]

\* 60000000.0 / float64(microsecondsPerBeat), as an exact fraction
TempoOfMicros(us) == [n |-> 60000000, d |-> us]

\* a note-on status byte, whatever the velocity
IsNoteOn_AnyVelocity(msg) ==
    Len(msg) >= 3 /\ msg[1] >= 144 /\ msg[1] <= 159

IsNoteOn(msg) ==
    Len(msg) >= 3 /\ msg[1] >= 144 /\ msg[1] <= 159 /\ msg[3] > 0

IsNoteOff(msg) ==
    Len(msg) >= 3
    /\ \/ (msg[1] >= 128 /\ msg[1] <= 143)
       \/ (msg[1] >= 144 /\ msg[1] <= 159 /\ msg[3] = 0)

RECURSIVE TickAt(_, _)
\* currentTick (int64) after the e-th event of a track, as carry * 2^32 + low:
\* a Delta (uint32) of 2^31 or more is kept as the negative integer congruent
\* to it modulo 2^32 (see GenerateMIDI), and int64(ev.Delta) is then 2^32 more
TickAt(track, e) ==
    IF e = 0 THEN [carry |-> 0, low |-> 0]
    ELSE LET before == TickAt(track, e - 1)
         IN  [carry |-> before.carry + (IF track[e].Delta < 0 THEN 1 ELSE 0),
              low |-> before.low + track[e].Delta]

RECURSIVE ScanTrack(_, _, _)
\* the inner loop over one track: (events, tempo) after its events e, e+1, ...
ScanTrack(track, e, acc) ==
    IF e > Len(track) THEN acc
    ELSE
        LET msg == track[e].Message
            tempo == IF IsTempoMsg(msg) /\ MicrosOf(msg) > 0
                     THEN TempoOfMicros(MicrosOf(msg)) ELSE acc.tempo
            ev == [tick |-> TickAt(track, e), note |-> msg[2],
                   velocity |-> msg[3], on |-> TRUE]
            events ==
                IF IsNoteOn(msg) THEN Append(acc.events, ev)
                ELSE IF IsNoteOff(msg)
                THEN Append(acc.events,
                            [ev EXCEPT !.velocity = 0, !.on = FALSE])
                ELSE acc.events
        IN  ScanTrack(track, e + 1, [events |-> events, tempo |-> tempo])

RECURSIVE ScanTracks(_, _, _)
\* the outer loop over s.Tracks
ScanTracks(tracks, t, acc) ==
    IF t > Len(tracks) THEN acc
    ELSE ScanTracks(tracks, t + 1, ScanTrack(tracks[t], 1, acc))

\* stepIndex for an event tick (ticksPerStep > 0): tick / ticksPerStep, taken
\* modulo 16 when it is 16 or more.  With 2^32 = Q * ticksPerStep + R (long
\* division by 16-bit digits; Q is q3 modulo 16), tick / ticksPerStep is
\* carry * Q + (carry * R + low) / ticksPerStep.
StepIndex(tick, ticksPerStep) ==
    LET r1 == 1 % ticksPerStep
        r2 == (r1 * 65536) % ticksPerStep
        q3 == (r2 * 65536) \div ticksPerStep
        R == (r2 * 65536) % ticksPerStep
    IN  IF tick.carry = 0 /\ tick.low \div ticksPerStep < 16
        THEN tick.low \div ticksPerStep
        ELSE (tick.carry * (q3 % 16)
                + ((tick.carry * R + tick.low) \div ticksPerStep)) % 16

RECURSIVE Quantize(_, _, _, _)
\* "Process note on events": the steps after events k, k+1, ...
Quantize(steps, events, k, ticksPerStep) ==
    IF k > Len(events) THEN steps
    ELSE IF ~events[k].on THEN Quantize(steps, events, k + 1, ticksPerStep)
    ELSE
        LET ev == events[k]
            idx == StepIndex(ev.tick, ticksPerStep) + 1
        IN  Quantize([steps EXCEPT ![idx] =
                        [@ EXCEPT !.Note = ev.note, !.Gate = TRUE,
                                  !.Velocity = ev.velocity,
                                  !.Accent = ev.velocity > 100]],
                     events, k + 1, ticksPerStep)

\* the second pass with a slide for any two gated steps in a row
DetectSlidesTies_AnySlide(steps) ==
    [k \in 1..16 |->
        IF k <= 15 /\ steps[k].Gate /\ steps[k + 1].Gate
        THEN [steps[k] EXCEPT
                !.Slide = steps[k].Note # steps[k + 1].Note,
                !.Tie = steps[k].Note = steps[k + 1].Note]
        ELSE steps[k]]

\* "Detect slides and ties by looking at consecutive notes"
DetectSlidesTies(steps) ==
    [k \in 1..16 |->
        IF k <= 15 /\ steps[k].Gate /\ steps[k + 1].Gate
        THEN LET noteDiff == steps[k + 1].Note - steps[k].Note
             IN  [steps[k] EXCEPT
                    !.Slide = @ \/ (noteDiff >= -2 /\ noteDiff <= 2
                                    /\ noteDiff # 0),
                    !.Tie = @ \/ (steps[k].Note = steps[k + 1].Note)]
        ELSE steps[k]]

\* ParseMIDI on the converter mc: the result and the converter afterwards.
\* The integer division by ticksPerStep panics when ticksPerStep is 0.
ParseMIDI(mc, data) ==
    IF ~data.smf.valid
    THEN [pattern |-> NilPattern, err |-> "failed to parse MIDI",
          panic |-> FALSE, m |-> mc]
    ELSE
        LET s == data.smf
            ticksPerQuarter == IF s.metric THEN s.resolution
                               ELSE mc.ticksPerQuarter
            ticksPerStep == ticksPerQuarter \div 4
            scan == ScanTracks(s.tracks, 1,
                               [events |-> <<>>, tempo |-> mc.tempo])
            mAfter == [ticksPerQuarter |-> ticksPerQuarter,
                       tempo |-> scan.tempo]
        IN  IF ticksPerStep = 0
               /\ \E k \in 1..Len(scan.events) : scan.events[k].on
            THEN [pattern |-> NilPattern, err |-> NoErr, panic |-> TRUE,
                  m |-> mAfter]
            ELSE [pattern |->
                     [nil |-> FALSE,
                      Name |-> "MIDI Pattern",
                      Steps |-> DetectSlidesTies(
                                   Quantize([k \in 1..16 |-> ZeroStep],
                                            scan.events, 1, ticksPerStep)),
                      Length |-> 16,
                      Tempo |-> scan.tempo,
                      DeviceID |-> 0],
                  err |-> NoErr, panic |-> FALSE, m |-> mAfter]

----------------------------------------------------------------------------
(* MIDIConverter.GenerateMIDI                                              *)
(*                                                                         *)
(* The tick arithmetic is uint32.  A uint32 value u is kept as the integer *)
(* congruent to u modulo 2^32 in -2^31 .. 2^31-1 (two's complement), so    *)
(* that + and - are the wrapping operations as long as the magnitudes stay *)
(* small, which they do for every resolution and pattern length here; a    *)
(* negative number therefore stands for a value of 2^31 or more.           *)

\* a < b on uint32
ULt(a, b) == IF (a < 0) = (b < 0) THEN a < b ELSE b < 0

\* uint32(60000000.0 / pattern.Tempo) for a positive tempo n/d
MicrosPerBeat(tempo) ==
    (60000000 \div tempo.n) * tempo.d
        + ((60000000 % tempo.n) * tempo.d) \div tempo.n

TempoMsg(us) ==
    <<255, 81, 3, U8(us \div 65536), U8(us \div 256), U8(us)>>

TimeSigMsg == <<255, 88, 4, 4, 2, 24, 8>>
MarkerMsg == <<255, 6, 0>>
EndOfTrackMsg == <<255, 47, 0>>

\* midi.NoteOn(channel, key, velocity) and midi.NoteOff(channel, key)
NoteOnMsg(channel, key, velocity) == <<144 + channel, key, velocity>>
NoteOffMsg(channel, key) == <<128 + channel, key, 0>>

Ev(delta, msg) == [Delta |-> delta, Message |-> msg]

\* defaultNoteLength
DefaultNoteLength(ticksPerStep) ==
    IF (ticksPerStep * 3) \div 4 = 0 THEN ticksPerStep - 1
    ELSE (ticksPerStep * 3) \div 4

\* the number of steps right after step i (0-based) that are Tie and Gate
TieCount(steps, i) ==
    Cardinality({j \in (i + 1)..(Len(steps) - 1) :
                    \A k \in (i + 1)..j : steps[k + 1].Tie /\ steps[k + 1].Gate})

\* noteDuration with the slide length taking precedence over the tie run
NoteDuration_SlideFirst(steps, i, ticksPerStep) ==
    LET step == steps[i + 1]
        tieCount == TieCount(steps, i)
    IN  IF step.Slide THEN ticksPerStep + (ticksPerStep \div 4)
        ELSE IF tieCount > 0
        THEN ticksPerStep * (tieCount + 1) - (ticksPerStep \div 8)
        ELSE DefaultNoteLength(ticksPerStep)

\* noteDuration of the note started at step i
NoteDuration(steps, i, ticksPerStep) ==
    LET step == steps[i + 1]
        tieCount == TieCount(steps, i)
    IN  IF tieCount > 0
        THEN ticksPerStep * (tieCount + 1)
                - (IF ~step.Slide THEN ticksPerStep \div 8 ELSE 0)
        ELSE IF step.Slide THEN ticksPerStep + (ticksPerStep \div 4)
        ELSE DefaultNoteLength(ticksPerStep)

\* velocity of the note-on of a step
NoteVelocity(step) ==
    IF step.Accent THEN 127
    ELSE IF step.Velocity = 0 THEN 100 ELSE step.Velocity

\* whether the loop emits a note for step i
Emits(steps, i) == steps[i + 1].Gate /\ ~(steps[i + 1].Tie /\ i > 0)

RECURSIVE EmitSteps(_, _, _, _)
\* the step loop: (track, currentTick) after steps i, i+1, ...
EmitSteps(steps, i, ticksPerStep, acc) ==
    IF i >= Len(steps) THEN acc
    ELSE IF ~Emits(steps, i) THEN EmitSteps(steps, i + 1, ticksPerStep, acc)
    ELSE
        LET step == steps[i + 1]
            stepTick == i * ticksPerStep
            delta == stepTick - acc.currentTick
            noteDuration == NoteDuration(steps, i, ticksPerStep)
        IN  EmitSteps(steps, i + 1, ticksPerStep,
                [track |-> acc.track
                    \o <<Ev(delta, NoteOnMsg(0, step.Note, NoteVelocity(step))),
                         Ev(noteDuration, NoteOffMsg(0, step.Note))>>,
                 currentTick |-> stepTick + noteDuration])

\* GenerateMIDI on the converter mc: the result, and the caller's pattern
\* afterwards (the tempo default is written into it)
GenerateMIDI(mc, pattern) ==
    IF pattern.nil
    THEN [data |-> NilData, err |-> "nil pattern", pattern |-> pattern]
    ELSE
        LET p == IF pattern.Tempo.n <= 0
                 THEN [pattern EXCEPT !.Tempo = Bpm(120)] ELSE pattern
            ticksPerStep == mc.ticksPerQuarter \div 4
            numSteps == IF Len(p.Steps) = 0 THEN 16 ELSE Len(p.Steps)
            totalPatternTicks == numSteps * ticksPerStep
            body == EmitSteps(p.Steps, 0, ticksPerStep,
                        [track |-> <<Ev(0, TempoMsg(MicrosPerBeat(p.Tempo))),
                                     Ev(0, TimeSigMsg)>>,
                         currentTick |-> 0])
            padded ==
                IF ULt(body.currentTick, totalPatternTicks)
                THEN Append(body.track,
                            Ev(totalPatternTicks - body.currentTick, MarkerMsg))
                ELSE body.track
        IN  [data |-> MidiFile(TRUE, mc.ticksPerQuarter,
                               <<Append(padded, Ev(0, EndOfTrackMsg))>>),
             err |-> NoErr, pattern |-> p]

----------------------------------------------------------------------------
(* Device: the interface and its implementations                           *)

\* mockDevice of converter_test.go
MockPattern ==
    [nil |-> FALSE, Name |-> "Mock", Steps |-> <<>>, Length |-> 0,
     Tempo |-> Bpm(0), DeviceID |-> 0]

\* device.ParseSeq, device.GenerateSeq, device.ParseSyx, device.GenerateSyx
\* through the interface, for the devices "td3" and "mock"
DevParseSeq(dev, data) ==
    IF dev = "td3" THEN ParseSeq(data)
    ELSE [pattern |-> MockPattern, err |-> NoErr]

DevGenerateSeq(dev, pattern) ==
    IF dev = "td3" THEN GenerateSeq(pattern)
    ELSE [data |-> <<0>>, err |-> NoErr]

DevParseSyx(dev, data) ==
    IF dev = "td3" THEN ParseSyx(data)
    ELSE [pattern |-> MockPattern, err |-> NoErr]

DevGenerateSyx(dev, pattern) ==
    IF dev = "td3" THEN GenerateSyx(pattern)
    ELSE [data |-> <<SysExStart, SysExEnd>>, err |-> NoErr]

----------------------------------------------------------------------------
(* Converter: the six conversions (types.go)                               *)
(*                                                                         *)
(* A conversion returns the output buffer and the error; calls lists the   *)
(* codec functions it called, in order, and panic tells that one of them   *)
(* panicked (the panic then leaves the conversion as well).                *)

\* the return of a conversion whose decoder returned dec (an error or a
\* panic) without a pattern
DecodeFailed(dec, name) ==
    [data |-> NilData, err |-> dec.err, panic |-> dec.panic,
     calls |-> <<name>>]

\* the return of a conversion whose encoder returned enc
Encoded(data, err, decName, encName) ==
    [data |-> data, err |-> err, panic |-> FALSE,
     calls |-> <<decName, encName>>]

MIDIToSeq(dev, midiData) ==
    LET dec == ParseMIDI(NewMIDIConverter, midiData)
        enc == DevGenerateSeq(dev, dec.pattern)
    IN  IF dec.panic \/ dec.err # NoErr THEN DecodeFailed(dec, "ParseMIDI")
        ELSE Encoded(Raw(enc.data), enc.err, "ParseMIDI", "GenerateSeq")

MIDIToSyx(dev, midiData) ==
    LET dec == ParseMIDI(NewMIDIConverter, midiData)
        enc == DevGenerateSyx(dev, dec.pattern)
    IN  IF dec.panic \/ dec.err # NoErr THEN DecodeFailed(dec, "ParseMIDI")
        ELSE Encoded(Raw(enc.data), enc.err, "ParseMIDI", "GenerateSyx")

SeqToMIDI(dev, seqData) ==
    LET dec == DevParseSeq(dev, seqData.bytes)
        enc == GenerateMIDI(NewMIDIConverter, dec.pattern)
    IN  IF dec.err # NoErr
        THEN DecodeFailed(dec @@ [panic |-> FALSE], "ParseSeq")
        ELSE Encoded(enc.data, enc.err, "ParseSeq", "GenerateMIDI")

\* a conversion to .syx that encodes with the .seq encoder
SeqToSyx_SeqEncoder(dev, seqData) ==
    LET dec == DevParseSeq(dev, seqData.bytes)
        enc == DevGenerateSeq(dev, dec.pattern)
    IN  IF dec.err # NoErr
        THEN DecodeFailed(dec @@ [panic |-> FALSE], "ParseSeq")
        ELSE Encoded(Raw(enc.data), enc.err, "ParseSeq", "GenerateSyx")

SeqToSyx(dev, seqData) ==
    LET dec == DevParseSeq(dev, seqData.bytes)
        enc == DevGenerateSyx(dev, dec.pattern)
    IN  IF dec.err # NoErr
        THEN DecodeFailed(dec @@ [panic |-> FALSE], "ParseSeq")
        ELSE Encoded(Raw(enc.data), enc.err, "ParseSeq", "GenerateSyx")

SyxToMIDI(dev, syxData) ==
    LET dec == DevParseSyx(dev, syxData.bytes)
        enc == GenerateMIDI(NewMIDIConverter, dec.pattern)
    IN  IF dec.err # NoErr
        THEN DecodeFailed(dec @@ [panic |-> FALSE], "ParseSyx")
        ELSE Encoded(enc.data, enc.err, "ParseSyx", "GenerateMIDI")

SyxToSeq(dev, syxData) ==
    LET dec == DevParseSyx(dev, syxData.bytes)
        enc == DevGenerateSeq(dev, dec.pattern)
    IN  IF dec.err # NoErr
        THEN DecodeFailed(dec @@ [panic |-> FALSE], "ParseSyx")
        ELSE Encoded(Raw(enc.data), enc.err, "ParseSyx", "GenerateSeq")

\* GetSupportedConversions(): each "src -> dst" string as the pair <<src, dst>>
GetSupportedConversions ==
    << <<"midi", "seq">>, <<"midi", "syx">>, <<"seq", "midi">>,
       <<"seq", "syx">>, <<"syx", "midi">>, <<"syx", "seq">> >>

----------------------------------------------------------------------------
(* Format detection and ConvertFile (types.go)                             *)
(*                                                                         *)
(* A file name is a sequence of one-character strings.                     *)

FormatMIDI == "midi"
FormatSeq == "seq"
FormatSyx == "syx"
FormatUnknown == "unknown"

\* strings.ToLower on one character, for the letters file names use here
ToLowerChar(c) ==
    CASE c = "M" -> "m" [] c = "I" -> "i" [] c = "D" -> "d"
      [] c = "S" -> "s" [] c = "E" -> "e" [] c = "Q" -> "q"
      [] c = "Y" -> "y" [] c = "X" -> "x" [] c = "A" -> "a"
      [] OTHER -> c

ToLower(str) == [k \in 1..Len(str) |-> ToLowerChar(str[k])]

\* filepath.Ext: the suffix starting at the last dot of the last path element
Ext(path) ==
    LET dots == {i \in 1..Len(path) :
                    path[i] = "." /\ \A j \in i..Len(path) : path[j] # "/"}
    IN  IF dots = {} THEN <<>>
        ELSE SubSeq(path, CHOOSE i \in dots : \A j \in dots : j <= i, Len(path))

\* a detection that compares the extension as it is written
DetectFormat_CaseSensitive(filename) ==
    LET ext == Ext(filename)
    IN  IF ext = <<".", "m", "i", "d">> \/ ext = <<".", "m", "i", "d", "i">>
        THEN FormatMIDI
        ELSE IF ext = <<".", "s", "e", "q">> THEN FormatSeq
        ELSE IF ext = <<".", "s", "y", "x">> THEN FormatSyx
        ELSE FormatUnknown

DetectFormat(filename) ==
    LET ext == ToLower(Ext(filename))
    IN  IF ext = <<".", "m", "i", "d">> \/ ext = <<".", "m", "i", "d", "i">>
        THEN FormatMIDI
        ELSE IF ext = <<".", "s", "e", "q">> THEN FormatSeq
        ELSE IF ext = <<".", "s", "y", "x">> THEN FormatSyx
        ELSE FormatUnknown

\* a detection that looks at the first byte before the length
DetectFormatFromContent_NoLength(data) ==
    IF Len(data.bytes) >= 4 /\ SubSeq(data.bytes, 1, 4) = MThd THEN FormatMIDI
    ELSE IF Len(data.bytes) >= 1 /\ At(data.bytes, 0) = SysExStart
    THEN FormatSyx
    ELSE IF Len(data.bytes) >= 4 THEN FormatSeq
    ELSE FormatUnknown

DetectFormatFromContent(data) ==
    IF Len(data.bytes) < 4 THEN FormatUnknown
    ELSE IF SubSeq(data.bytes, 1, 4) = MThd THEN FormatMIDI
    ELSE IF At(data.bytes, 0) = SysExStart THEN FormatSyx
    ELSE FormatSeq

\* a file system maps each path to [exists, data, writable, room];
\* os.ReadFile fails on a path that does not exist.  os.WriteFile fails on
\* one that is not writable (the open fails and the file is left as it was)
\* and, room being the number of bytes the device still takes (-1: no
\* limit), on a buffer longer than room: the file is then left truncated
\* to the bytes written so far.
NoFile == [exists |-> FALSE, data |-> NilData, writable |-> TRUE, room |-> -1]

\* an os.WriteFile that reports success after writing the first byte only
WriteFile_FirstByte(fs, path, data) ==
    [err |-> NoErr,
     files |-> [fs EXCEPT ![path] =
                  [@ EXCEPT !.exists = TRUE,
                            !.data = Raw(SubSeq(data.bytes, 1, 1))]]]

\* os.WriteFile(path, data, 0644): the error and the file system afterwards
WriteFile(fs, path, data) ==
    IF ~fs[path].writable
    THEN [err |-> "open failed", files |-> fs]
    ELSE IF fs[path].room >= 0 /\ Len(data.bytes) > fs[path].room
    THEN [err |-> "write failed",
          files |-> [fs EXCEPT ![path] =
                       [@ EXCEPT !.exists = TRUE,
                                 !.data = Raw(SubSeq(data.bytes, 1,
                                                     fs[path].room))]]]
    ELSE [err |-> NoErr,
          files |-> [fs EXCEPT ![path] =
                       [@ EXCEPT !.exists = TRUE, !.data = data]]]

\* a switch with a case for the pair (seq, seq) as well
Dispatch_SeqToSeq(inputFormat, outputFormat) ==
    IF inputFormat = FormatMIDI /\ outputFormat = FormatSeq THEN "MIDIToSeq"
    ELSE IF inputFormat = FormatMIDI /\ outputFormat = FormatSyx THEN "MIDIToSyx"
    ELSE IF inputFormat = FormatSeq /\ outputFormat = FormatMIDI THEN "SeqToMIDI"
    ELSE IF inputFormat = FormatSeq /\ outputFormat = FormatSyx THEN "SeqToSyx"
    ELSE IF inputFormat = FormatSeq /\ outputFormat = FormatSeq THEN "SeqToSyx"
    ELSE IF inputFormat = FormatSyx /\ outputFormat = FormatMIDI THEN "SyxToMIDI"
    ELSE IF inputFormat = FormatSyx /\ outputFormat = FormatSeq THEN "SyxToSeq"
    ELSE "none"

\* the switch of ConvertFile: the conversion a format pair dispatches to
Dispatch(inputFormat, outputFormat) ==
    IF inputFormat = FormatMIDI /\ outputFormat = FormatSeq THEN "MIDIToSeq"
    ELSE IF inputFormat = FormatMIDI /\ outputFormat = FormatSyx THEN "MIDIToSyx"
    ELSE IF inputFormat = FormatSeq /\ outputFormat = FormatMIDI THEN "SeqToMIDI"
    ELSE IF inputFormat = FormatSeq /\ outputFormat = FormatSyx THEN "SeqToSyx"
    ELSE IF inputFormat = FormatSyx /\ outputFormat = FormatMIDI THEN "SyxToMIDI"
    ELSE IF inputFormat = FormatSyx /\ outputFormat = FormatSeq THEN "SyxToSeq"
    ELSE "none"

\* the conversion method of that name
Convert(name, dev, data) ==
    CASE name = "MIDIToSeq" -> MIDIToSeq(dev, data)
      [] name = "MIDIToSyx" -> MIDIToSyx(dev, data)
      [] name = "SeqToMIDI" -> SeqToMIDI(dev, data)
      [] name = "SeqToSyx" -> SeqToSyx(dev, data)
      [] name = "SyxToMIDI" -> SyxToMIDI(dev, data)
      [] name = "SyxToSeq" -> SyxToSeq(dev, data)

\* ConvertFile: the error returned, the file system afterwards, the formats
\* it worked with and the conversion it dispatched to ("none" if none)
ConvertFile(dev, fs, inputPath, outputPath) ==
    LET byExt == DetectFormat(inputPath)
        outputFormat == DetectFormat(outputPath)
        inputFormat == IF byExt = FormatUnknown /\ fs[inputPath].exists
                       THEN DetectFormatFromContent(fs[inputPath].data)
                       ELSE byExt
        conv == Dispatch(inputFormat, outputFormat)
        fail(e) == [err |-> e, files |-> fs, inputFormat |-> inputFormat,
                    outputFormat |-> outputFormat, conv |-> "none",
                    panic |-> FALSE]
    IN  IF byExt = FormatUnknown /\ ~fs[inputPath].exists
        THEN fail("failed to read input file")
        ELSE IF outputFormat = FormatUnknown
        THEN fail("cannot determine output format from filename")
        ELSE IF ~fs[inputPath].exists
        THEN fail("failed to read input file")
        ELSE IF conv = "none"
        THEN fail("unsupported conversion")
        ELSE
            LET r == Convert(conv, dev, fs[inputPath].data)
            IN  IF r.panic
                THEN [fail(NoErr) EXCEPT !.conv = conv, !.panic = TRUE]
                ELSE IF r.err # NoErr
                THEN [fail("conversion failed") EXCEPT !.conv = conv]
                ELSE
                    LET w == WriteFile(fs, outputPath, r.data)
                    IN  IF w.err # NoErr
                        THEN [fail("failed to write output file") EXCEPT
                                !.conv = conv, !.files = w.files]
                        ELSE [fail(NoErr) EXCEPT
                                !.conv = conv, !.files = w.files]

----------------------------------------------------------------------------
(* Inputs.  The callers of the codecs pass patterns and buffers; the sets  *)
(* below are the ones explored.                                            *)

\* patterns have 0..MaxLen steps (MaxLen > MaxSteps)
MaxLen == 17
\* a caller makes at most MaxCalls calls in a row
MaxCalls == 3

StepOf(note, gate, accent, slide, tie, velocity) ==
    [Note |-> note, Accent |-> accent, Slide |-> slide, Gate |-> gate,
     Tie |-> tie, Velocity |-> velocity]

FillSteps == {ZeroStep, StepOf(60, TRUE, FALSE, FALSE, FALSE, 100)}

SpecialSteps ==
    {StepOf(24, TRUE, FALSE, FALSE, FALSE, 100),
     StepOf(127, TRUE, TRUE, FALSE, FALSE, 127),
     StepOf(23, TRUE, FALSE, TRUE, FALSE, 100),
     StepOf(0, FALSE, FALSE, FALSE, TRUE, 0),
     StepOf(36, TRUE, TRUE, TRUE, TRUE, 127),
     StepOf(61, TRUE, FALSE, FALSE, FALSE, 64)}

PatternOf(steps) ==
    [nil |-> FALSE, Name |-> "Test", Steps |-> steps, Length |-> 16,
     Tempo |-> Bpm(120), DeviceID |-> 0]

\* n steps, all equal to fill except the one at index pos (0-based)
OneSpecial(n, fill, pos, special) ==
    PatternOf([k \in 1..n |-> IF k = pos + 1 THEN special ELSE fill])

\* the first, the middle and the last index of a pattern of n steps
Positions(n) == {0, n \div 2, n - 1}

PatternInputs ==
    {NilPattern}
    \cup {PatternOf(<<>>)}
    \cup UNION {{OneSpecial(n, fill, pos, special) :
                    fill \in FillSteps, pos \in Positions(n),
                    special \in SpecialSteps} : n \in 1..MaxLen}
    \cup {[PatternOf(<<step>>) EXCEPT !.Tempo = Bpm(t)] :
            step \in FillSteps, t \in {0, -10}}

\* replace the byte at offset off
Poke(bytes, off, v) == [bytes EXCEPT ![off + 1] = v]

\* the first n bytes
Truncate(bytes, n) == SubSeq(bytes, 1, n)

\* byte values tried in pokes
PokeValues == {0, 1, 2, 8, 15, 16, 32, 127, 128, 240, 247, 255}

\* the patterns whose encodings are the well-formed buffers
BasePatterns ==
    {OneSpecial(16, StepOf(60, TRUE, FALSE, FALSE, FALSE, 100), 5,
                StepOf(36, TRUE, TRUE, TRUE, TRUE, 127)),
     OneSpecial(4, ZeroStep, 1, StepOf(48, TRUE, FALSE, TRUE, FALSE, 100))}

SeqPokeOffsets ==
    {0, 1, 2, 3,
     NotesOffset, NotesOffset + 1, NotesOffset + 2, NotesOffset + 3,
     NotesOffset + 30, NotesOffset + 31,
     AccentsOffset + 1, AccentsOffset + 3, SlidesOffset + 1, SlidesOffset + 2,
     LengthOffset, LengthOffset + 1,
     TieOffset, TieOffset + 1, TieOffset + 2, TieOffset + 3,
     RestOffset, RestOffset + 1, RestOffset + 2, RestOffset + 3}

SeqLengths == {0, 3, 4, 100, TD3SeqMinSize - 1}

\* .seq buffers: encodings, encodings with one byte changed, truncated and
\* extended ones
SeqInputs ==
    UNION {LET b == GenerateSeq(p).data
           IN  {b, b \o <<0>>, b \o <<1, 2, 3, 4>>}
               \cup {Poke(b, off, v) : off \in SeqPokeOffsets, v \in PokeValues}
               \cup {Truncate(b, n) : n \in SeqLengths}
           : p \in BasePatterns}

SyxPokeOffsets == {0, 1, 2, 3, 4, 7, 8, 9, 10, 11, 37, 38, 39, 40}

SyxLengths == {0, 2, 9, 10, 11, 39, 40, 41, 42, 43}

\* a frame of n bytes: F0 00 20 32 00 01 40, payload bytes (those of the
\* encoding, then zeros) and F7 as the last byte
SyxFrame(b, n) ==
    [k \in 1..n |-> IF k = n THEN SysExEnd
                    ELSE IF k < Len(b) THEN b[k] ELSE 0]

\* .syx buffers: encodings, encodings with one byte changed, frames of other
\* lengths and truncated encodings
SyxInputs ==
    UNION {LET b == GenerateSyx(p).data
           IN  {b}
               \cup {Poke(b, off, v) : off \in SyxPokeOffsets, v \in PokeValues}
               \cup {SyxFrame(b, n) : n \in SyxLengths \ {0}}
               \cup {Truncate(b, n) : n \in SyxLengths \ {42, 43}}
           : p \in BasePatterns}

\* resolutions (ticks per quarter note) of the MIDI files tried
MidiResolutions == {1, 3, 4, 96, 480}

NoteOnMsgs ==
    {NoteOnMsg(0, 60, 100), NoteOnMsg(1, 60, 127), NoteOnMsg(0, 62, 101)}

OtherMsgs ==
    {NoteOnMsg(0, 72, 1), NoteOffMsg(0, 60), NoteOnMsg(0, 60, 0),
     TempoMsg(600000), TempoMsg(0)}

\* delta times: none, one step, one bar and one step
DeltasFor(res) == {0, res \div 4, (17 * res) \div 4}

EventsFor(res, msgs) == {Ev(d, msg) : d \in DeltasFor(res), msg \in msgs}

\* the track lists tried for a file of resolution res: no track, one track
\* of up to two events, two tracks of one event each
TracksFor(res) ==
    {<<>>, << <<>> >>}
    \cup {<< <<e>> >> : e \in EventsFor(res, NoteOnMsgs \cup OtherMsgs)}
    \cup {<< <<e1, e2>> >> : e1 \in EventsFor(res, NoteOnMsgs),
                            e2 \in EventsFor(res, NoteOnMsgs \cup OtherMsgs)}
    \cup {<< <<e1>>, <<e2>> >> : e1 \in EventsFor(res, NoteOnMsgs),
                                e2 \in EventsFor(res, NoteOnMsgs)}

\* MIDI buffers: files of each resolution, one file with a non-metric time
\* format, and buffers smf.ReadFrom rejects
MidiInputs ==
    UNION {{MidiFile(TRUE, res, tracks) : tracks \in TracksFor(res)} :
            res \in MidiResolutions}
    \cup {MidiFile(FALSE, 0, << <<Ev(120, NoteOnMsg(0, 60, 100))>> >>)}
    \cup {Raw(MThd \o <<0, 0>>), Raw(<<>>)}

\* every buffer a caller starts from
BufferInputs ==
    {Raw(b) : b \in SeqInputs \cup SyxInputs} \cup MidiInputs

----------------------------------------------------------------------------
(* The callers of the codecs: one input, then up to MaxCalls calls, each   *)
(* decoder on the buffer held and each encoder on the pattern held.  A     *)
(* buffer returned by an encoder is passed on to the decoder of the same   *)
(* format, a pattern returned by a decoder to the encoder of that format.  *)

Holding(kind, fmt, pattern, data) ==
    [kind |-> kind, fmt |-> fmt, pattern |-> pattern, data |-> data]

Nothing == Holding("none", "any", NilPattern, NilData)

\* what a call returned: decoders return (pattern, err); encoders return
\* (data, err), and pattern is then the caller's pattern after the call
Ret(pattern, data, err, panic) ==
    [pattern |-> pattern, data |-> data, err |-> err, panic |-> panic,
     calls |-> <<>>, conv |-> "none"]

Logged(name, r) == Append(log, [op |-> name, ret |-> r])

Init ==
    /\ input \in {Holding("buffer", "any", NilPattern, d) : d \in BufferInputs}
                 \cup {Holding("pattern", "any", p, NilData) :
                        p \in PatternInputs}
    /\ cur = input
    /\ log = <<>>
    /\ m = NewMIDIConverter
    /\ device = "td3"
    /\ files = <<>>

CanDecode(fmt) ==
    /\ Len(log) < MaxCalls
    /\ cur.kind = "buffer"
    /\ cur.fmt \in {"any", fmt}

CanEncode(fmt) ==
    /\ Len(log) < MaxCalls
    /\ cur.kind = "pattern"
    /\ cur.fmt \in {"any", fmt}

\* the caller keeps the pattern of a successful decode
AfterDecode(fmt, r) ==
    IF r.err = NoErr /\ ~r.panic
    THEN Holding("pattern", fmt, r.pattern, NilData) ELSE Nothing

\* the caller keeps the buffer of a successful encode
AfterEncode(fmt, r) ==
    IF r.err = NoErr THEN Holding("buffer", fmt, NilPattern, r.data)
    ELSE Nothing

CallParseSeq ==
    /\ CanDecode("seq")
    /\ LET r == ParseSeq(cur.data.bytes)
       IN  /\ log' = Logged("ParseSeq", Ret(r.pattern, NilData, r.err, FALSE))
           /\ cur' = AfterDecode("seq", r @@ [panic |-> FALSE])
    /\ UNCHANGED <<input, m, device, files>>

CallGenerateSeq ==
    /\ CanEncode("seq")
    /\ LET r == GenerateSeq(cur.pattern)
       IN  /\ log' = Logged("GenerateSeq",
                            Ret(cur.pattern, Raw(r.data), r.err, FALSE))
           /\ cur' = AfterEncode("seq", [r EXCEPT !.data = Raw(r.data)])
    /\ UNCHANGED <<input, m, device, files>>

CallParseSyx ==
    /\ CanDecode("syx")
    /\ LET r == ParseSyx(cur.data.bytes)
       IN  /\ log' = Logged("ParseSyx", Ret(r.pattern, NilData, r.err, FALSE))
           /\ cur' = AfterDecode("syx", r @@ [panic |-> FALSE])
    /\ UNCHANGED <<input, m, device, files>>

CallGenerateSyx ==
    /\ CanEncode("syx")
    /\ LET r == GenerateSyx(cur.pattern)
       IN  /\ log' = Logged("GenerateSyx",
                            Ret(cur.pattern, Raw(r.data), r.err, FALSE))
           /\ cur' = AfterEncode("syx", [r EXCEPT !.data = Raw(r.data)])
    /\ UNCHANGED <<input, m, device, files>>

CallParseMIDI ==
    /\ CanDecode("midi")
    /\ LET r == ParseMIDI(m, cur.data)
       IN  /\ log' = Logged("ParseMIDI", Ret(r.pattern, NilData, r.err, r.panic))
           /\ cur' = AfterDecode("midi", r)
           /\ m' = r.m
    /\ UNCHANGED <<input, device, files>>

CallGenerateMIDI ==
    /\ CanEncode("midi")
    /\ LET r == GenerateMIDI(m, cur.pattern)
       IN  /\ log' = Logged("GenerateMIDI", Ret(r.pattern, r.data, r.err, FALSE))
           /\ cur' = AfterEncode("midi", r)
    /\ UNCHANGED <<input, m, device, files>>

Next ==
    \/ CallParseSeq
    \/ CallGenerateSeq
    \/ CallParseSyx
    \/ CallGenerateSyx
    \/ CallParseMIDI
    \/ CallGenerateMIDI

Spec == Init /\ [][Next]_vars

----------------------------------------------------------------------------
(* Reading the log                                                         *)

\* the names of the calls made so far
Ops == [k \in 1..Len(log) |-> log[k].op]

\* the buffer passed to the k-th call (a decoder)
ArgData(k) == IF k = 1 THEN input.data ELSE log[k - 1].ret.data

\* the pattern passed to the k-th call (an encoder)
ArgPattern(k) == IF k = 1 THEN input.pattern ELSE log[k - 1].ret.pattern

Decoders == {"ParseSeq", "ParseSyx", "ParseMIDI"}

\* the k-th call returned a pattern
Decoded(k) ==
    /\ k <= Len(log)
    /\ log[k].op \in Decoders
    /\ log[k].ret.err = NoErr
    /\ ~log[k].ret.panic

\* every note of the steps lies in lo..hi
NotesWithin(steps, lo, hi) ==
    \A i \in 1..Len(steps) : steps[i].Note >= lo /\ steps[i].Note <= hi

\* steps q repeat gate, accent and slide of every step of p, and the tie of
\* every step but the first
FlagsPreserved(p, q) ==
    \A i \in 1..Len(p) :
        /\ i <= Len(q)
        /\ q[i].Gate = p[i].Gate
        /\ q[i].Accent = p[i].Accent
        /\ q[i].Slide = p[i].Slide
        /\ (i > 1 => q[i].Tie = p[i].Tie)

\* steps q repeat the note of every step of p
NotesPreserved(p, q) ==
    \A i \in 1..Len(p) : i <= Len(q) /\ q[i].Note = p[i].Note

\* steps q repeat the note of every step of p that is 24 or more, and have
\* 24 where p has less
NotesPreservedFrom24(p, q) ==
    \A i \in 1..Len(p) :
        /\ i <= Len(q)
        /\ q[i].Note = (IF p[i].Note >= 24 THEN p[i].Note ELSE 24)

\* the caller encoded its input pattern as .seq and decoded the result
SeqRoundTripDone ==
    /\ input.kind = "pattern"
    /\ ~input.pattern.nil
    /\ Len(input.pattern.Steps) <= 16
    /\ Len(log) >= 2
    /\ log[1].op = "GenerateSeq"
    /\ log[2].op = "ParseSeq"

\* C1 as stated: for every pattern of at most 16 steps with notes in 0..127,
\* ParseSeq(GenerateSeq(p)) succeeds and returns note, gate, accent and slide
\* of every step of p, and the tie of every step after the first.
C1_RoundTripAllNotes ==
    (SeqRoundTripDone /\ NotesWithin(input.pattern.Steps, 0, 127))
        => /\ log[2].ret.err = NoErr
           /\ FlagsPreserved(input.pattern.Steps, log[2].ret.pattern.Steps)
           /\ NotesPreserved(input.pattern.Steps, log[2].ret.pattern.Steps)

\* C1 amended: for every pattern of at most 16 steps with notes in 0..127,
\* ParseSeq(GenerateSeq(p)) succeeds and returns gate, accent and slide of
\* every step of p, the tie of every step after the first, and the note of
\* every step whose note is 24 or more; a note below 24 comes back as 24.
C1_RoundTripSeq ==
    (SeqRoundTripDone /\ NotesWithin(input.pattern.Steps, 0, 127))
        => /\ log[2].ret.err = NoErr
           /\ FlagsPreserved(input.pattern.Steps, log[2].ret.pattern.Steps)
           /\ NotesPreservedFrom24(input.pattern.Steps,
                                   log[2].ret.pattern.Steps)

\* a round trip of a 16-step pattern whose step 8 is tied and accented and
\* has note 36, and whose other steps have note 60
C1_Witness ==
    /\ SeqRoundTripDone
    /\ Len(input.pattern.Steps) = 16
    /\ input.pattern.Steps[9].Tie
    /\ input.pattern.Steps[9].Accent
    /\ input.pattern.Steps[1].Note = 60
    /\ log[2].ret.pattern.Steps[9].Tie
    /\ log[2].ret.pattern.Steps[9].Note = 36

\* patterns p and q agree in everything but the name as far as C2
\* lists it: number of steps, and per step note, gate, accent, slide, tie
\* and velocity
SameSteps(p, q) ==
    /\ Len(p.Steps) = Len(q.Steps)
    /\ \A i \in 1..Len(p.Steps) : p.Steps[i] = q.Steps[i]

\* the caller decoded its input buffer, encoded the pattern in the same
\* format and decoded that
DecodedTwice(dec, enc) ==
    /\ input.kind = "buffer"
    /\ Len(log) >= 3
    /\ log[1].op = dec /\ log[2].op = enc /\ log[3].op = dec
    /\ Decoded(1)

\* C2: for the .seq and the .syx codec and every buffer b the decoder
\* accepts, decoding the encoding of decode(b) succeeds and yields a pattern
\* with the steps of decode(b).
C2_RoundTripIdempotent ==
    \A c \in {<<"ParseSeq", "GenerateSeq">>, <<"ParseSyx", "GenerateSyx">>} :
        DecodedTwice(c[1], c[2])
            => /\ Decoded(3)
               /\ SameSteps(log[3].ret.pattern, log[1].ret.pattern)

\* the pattern passed to GenerateSeq by the k-th call, and what came back
GenerateSeqReturned(k) == k <= Len(log) /\ log[k].op = "GenerateSeq"

\* C3: GenerateSeq returns exactly 146 bytes beginning 23 98 54 76 for every
\* non-nil pattern, whatever its number of steps, and an error and no buffer
\* for a nil pattern.
C3_GenerateSeqSize ==
    \A k \in 1..Len(log) :
        GenerateSeqReturned(k) =>
            IF ArgPattern(k).nil
            THEN log[k].ret.err # NoErr /\ log[k].ret.data = NilData
            ELSE /\ log[k].ret.err = NoErr
                 /\ Len(log[k].ret.data.bytes) = 146
                 /\ SubSeq(log[k].ret.data.bytes, 1, 4) = <<35, 152, 84, 118>>

\* GenerateSeq returned 146 bytes for a pattern of more than 16 steps
C3_Witness ==
    /\ GenerateSeqReturned(1)
    /\ Len(ArgPattern(1).Steps) > 16
    /\ Len(log[1].ret.data.bytes) = 146

\* the first four bytes are 23 98 54 76
HasSeqMagic(bytes) ==
    Len(bytes) >= 4 /\ SubSeq(bytes, 1, 4) = <<35, 152, 84, 118>>

\* C4: ParseSeq returns an error and no pattern for every buffer shorter than
\* 146 bytes and for every buffer whose first four bytes are not 23 98 54 76,
\* and accepts every buffer of at least 146 bytes with these first bytes.
C4_ParseSeqRejects ==
    \A k \in 1..Len(log) :
        log[k].op = "ParseSeq" =>
            IF Len(ArgData(k).bytes) < 146 \/ ~HasSeqMagic(ArgData(k).bytes)
            THEN log[k].ret.err # NoErr /\ log[k].ret.pattern.nil
            ELSE log[k].ret.err = NoErr /\ ~log[k].ret.pattern.nil

\* ParseSeq rejected a buffer of 146 bytes of which only the fourth is wrong
C4_Witness ==
    /\ Len(log) = 1
    /\ log[1].op = "ParseSeq"
    /\ Len(input.data.bytes) = 146
    /\ SubSeq(input.data.bytes, 1, 3) = <<35, 152, 84>>
    /\ input.data.bytes[4] # 118
    /\ log[1].ret.err # NoErr

\* a buffer ParseSyx has to reject: shorter than 10 bytes, not starting with
\* F0, not ending with F7, not carrying 00 20 32 at offsets 1..3, or too
\* short for 16 pairs from offset 8 on before the final F7 (41 bytes)
SyxMalformed(bytes) ==
    \/ Len(bytes) < 10
    \/ bytes[1] # 240
    \/ bytes[Len(bytes)] # 247
    \/ SubSeq(bytes, 2, 4) # <<0, 32, 50>>
    \/ Len(bytes) < 8 + 16 * 2 + 1

\* C5: ParseSyx returns an error and no pattern for every such buffer.
C5_ParseSyxRejects ==
    \A k \in 1..Len(log) :
        (log[k].op = "ParseSyx" /\ SyxMalformed(ArgData(k).bytes))
            => log[k].ret.err # NoErr /\ log[k].ret.pattern.nil

\* C6: in every pattern a decoder returns, the tie flag of the first step is
\* false.
C6_FirstStepNotTied ==
    \A k \in 1..Len(log) :
        (Decoded(k) /\ Len(log[k].ret.pattern.Steps) > 0)
            => ~log[k].ret.pattern.Steps[1].Tie

\* C7: every pattern a decoder returns has at most 16 steps, each with note
\* and velocity in 0..127.
C7_StepsInRange ==
    \A k \in 1..Len(log) :
        Decoded(k) =>
            /\ Len(log[k].ret.pattern.Steps) <= 16
            /\ \A i \in 1..Len(log[k].ret.pattern.Steps) :
                    /\ log[k].ret.pattern.Steps[i].Note \in 0..127
                    /\ log[k].ret.pattern.Steps[i].Velocity \in 0..127

\* C8: every codec call returns a result or an error; none panics.
C8_NoPanic ==
    \A k \in 1..Len(log) : ~log[k].ret.panic


----------------------------------------------------------------------------
(* The callers of the Converter: a converter is made with New(device), its *)
(* device may be replaced with SetDevice, and one of the six conversions   *)
(* is called on a buffer.                                                  *)

Devices == {"td3", "mock"}

InitConv ==
    /\ input \in {Holding("buffer", "any", NilPattern, d) : d \in BufferInputs}
    /\ cur = input
    /\ log = <<>>
    /\ m = NewMIDIConverter
    /\ device \in Devices
    /\ files = <<>>

SetDevice ==
    /\ log = <<>>
    /\ \E d \in Devices \ {device} : device' = d
    /\ UNCHANGED <<input, cur, log, m, files>>

\* the caller keeps the buffer of a successful conversion
AfterConvert(r) ==
    IF r.err = NoErr /\ ~r.panic
    THEN Holding("buffer", "any", NilPattern, r.data) ELSE Nothing

\* one call of the conversion of that name on the input buffer
CallConversion(name) ==
    /\ log = <<>>
    /\ LET r == Convert(name, device, cur.data)
       IN  /\ log' = Logged(name, [Ret(NilPattern, r.data, r.err, r.panic)
                                      EXCEPT !.calls = r.calls, !.conv = name])
           /\ cur' = AfterConvert(r)
    /\ UNCHANGED <<input, m, device, files>>

CallMIDIToSeq == CallConversion("MIDIToSeq")
CallMIDIToSyx == CallConversion("MIDIToSyx")
CallSeqToMIDI == CallConversion("SeqToMIDI")
CallSeqToSyx == CallConversion("SeqToSyx")
CallSyxToMIDI == CallConversion("SyxToMIDI")
CallSyxToSeq == CallConversion("SyxToSeq")

NextConv ==
    \/ SetDevice
    \/ CallMIDIToSeq
    \/ CallMIDIToSyx
    \/ CallSeqToMIDI
    \/ CallSeqToSyx
    \/ CallSyxToMIDI
    \/ CallSyxToSeq

SpecConv == InitConv /\ [][NextConv]_vars

\* the source decoder and the destination encoder of each conversion
DecoderOf(name) ==
    CASE name \in {"MIDIToSeq", "MIDIToSyx"} -> "ParseMIDI"
      [] name \in {"SeqToMIDI", "SeqToSyx"} -> "ParseSeq"
      [] name \in {"SyxToMIDI", "SyxToSeq"} -> "ParseSyx"

EncoderOf(name) ==
    CASE name \in {"SeqToMIDI", "SyxToMIDI"} -> "GenerateMIDI"
      [] name \in {"MIDIToSeq", "SyxToSeq"} -> "GenerateSeq"
      [] name \in {"MIDIToSyx", "SeqToSyx"} -> "GenerateSyx"

\* what the decoder of that name returns for the buffer, as (pattern, err,
\* panic)
Decode(name, dev, data) ==
    CASE name = "ParseMIDI" ->
            LET r == ParseMIDI(NewMIDIConverter, data)
            IN  [pattern |-> r.pattern, err |-> r.err, panic |-> r.panic]
      [] name = "ParseSeq" -> DevParseSeq(dev, data.bytes) @@ [panic |-> FALSE]
      [] name = "ParseSyx" -> DevParseSyx(dev, data.bytes) @@ [panic |-> FALSE]

\* what the encoder of that name returns for the pattern, as (data, err)
Encode(name, dev, pattern) ==
    CASE name = "GenerateMIDI" ->
            LET r == GenerateMIDI(NewMIDIConverter, pattern)
            IN  [data |-> r.data, err |-> r.err]
      [] name = "GenerateSeq" ->
            LET r == DevGenerateSeq(dev, pattern)
            IN  [data |-> Raw(r.data), err |-> r.err]
      [] name = "GenerateSyx" ->
            LET r == DevGenerateSyx(dev, pattern)
            IN  [data |-> Raw(r.data), err |-> r.err]

\* C9: each of the six conversions returns what the destination encoder
\* returns for the pattern of the source decoder, with one decode and one
\* encode call; if the decode fails, the encoder is not called and the decode
\* error is returned with no output bytes (and a decoder that panics leaves
\* the conversion panicking, the encoder not called).
C9_ConversionComposes ==
    \A k \in 1..Len(log) :
        LET name == log[k].op
            r == log[k].ret
            dec == Decode(DecoderOf(name), device, input.data)
            enc == Encode(EncoderOf(name), device, dec.pattern)
        IN  IF dec.panic
            THEN r.panic /\ r.calls = <<DecoderOf(name)>>
            ELSE IF dec.err # NoErr
            THEN /\ r.err = dec.err
                 /\ r.data = NilData
                 /\ ~r.panic
                 /\ r.calls = <<DecoderOf(name)>>
            ELSE /\ r.data = enc.data
                 /\ r.err = enc.err
                 /\ ~r.panic
                 /\ r.calls = <<DecoderOf(name), EncoderOf(name)>>

\* SeqToSyx of the TD-3 returned a 41-byte SysEx frame for an accepted .seq
\* buffer
C9_Witness ==
    /\ Len(log) = 1
    /\ log[1].op = "SeqToSyx"
    /\ device = "td3"
    /\ ParseSeq(input.data.bytes).err = NoErr
    /\ log[1].ret.err = NoErr
    /\ Len(log[1].ret.data.bytes) = 41
    /\ log[1].ret.data.bytes[1] = 240


----------------------------------------------------------------------------
(* The callers of ConvertFile: a file system with an input file (or none)  *)
(* and an output path, then one call.                                      *)

\* input paths, by extension: known ones in both cases, unknown ones, none,
\* and a dot in a directory name only
InputPaths ==
    {<<"a", ".", "m", "i", "d">>, <<"a", ".", "M", "I", "D", "I">>,
     <<"a", ".", "s", "e", "q">>, <<"a", ".", "S", "Y", "X">>,
     <<"a", ".", "s", "y", "x">>, <<"a", ".", "b", "i", "n">>,
     <<"a">>, <<"d", ".", "s", "e", "q", "/", "a">>}

OutputPaths ==
    {<<"b", ".", "m", "i", "d">>, <<"b", ".", "m", "i", "d", "i">>,
     <<"b", ".", "S", "E", "Q">>, <<"b", ".", "s", "e", "q">>,
     <<"b", ".", "s", "y", "x">>, <<"b", ".", "t", "x", "t">>,
     <<"b">>, <<"b", ".", "s", "e", "q", ".", "x">>}

\* contents of the input file
FileContents ==
    {Raw(GenerateSeq(p).data) : p \in BasePatterns}
    \cup {Raw(GenerateSyx(p).data) : p \in BasePatterns}
    \cup {Raw(Truncate(GenerateSeq(p).data, 100)) : p \in BasePatterns}
    \cup {Raw(<<>>), Raw(<<1, 2, 3>>), Raw(<<240, 0, 32>>),
          Raw(MThd \o <<0, 0>>),
          MidiFile(TRUE, 480, << <<Ev(0, NoteOnMsg(0, 60, 100))>> >>),
          MidiFile(TRUE, 3, << <<Ev(0, NoteOnMsg(0, 60, 100))>> >>),
          MidiFile(TRUE, 96, <<>>)}

\* what the output path holds before the call: nothing or an older file,
\* writable or not, on a device that takes 0, 2 or any number of bytes
OutputFiles ==
    {[exists |-> e, data |-> IF e THEN Raw(<<9, 9, 9>>) ELSE NilData,
      writable |-> w, room |-> r] :
        e \in BOOLEAN, w \in BOOLEAN, r \in {-1, 0, 2}}

\* the file system with that input file and that output file
FileSystem(inputPath, inFile, outputPath, outFile) ==
    [p \in {inputPath, outputPath} |->
        IF p = inputPath THEN inFile ELSE outFile]

InitFile ==
    /\ \E ip \in InputPaths, op \in OutputPaths, o \in OutputFiles :
        \E f \in {NoFile} \cup {[exists |-> TRUE, data |-> d,
                                 writable |-> TRUE, room |-> -1]
                                : d \in FileContents} :
            /\ input = [kind |-> "paths", inputPath |-> ip, outputPath |-> op]
            /\ files = FileSystem(ip, f, op, o)
    /\ cur = Nothing
    /\ log = <<>>
    /\ m = NewMIDIConverter
    /\ device \in Devices

CallConvertFile ==
    /\ log = <<>>
    /\ LET r == ConvertFile(device, files, input.inputPath, input.outputPath)
       IN  /\ log' = Logged("ConvertFile",
                            [r EXCEPT !.files = files[input.inputPath]]
                                @@ [before |-> files])
           /\ files' = r.files
    /\ UNCHANGED <<input, cur, m, device>>

NextFile ==
    \/ SetDevice
    \/ CallConvertFile

SpecFile == InitFile /\ [][NextFile]_vars

\* the pair <<source, destination>> is one of GetSupportedConversions()
Supported(source, destination) ==
    \E k \in 1..Len(GetSupportedConversions) :
        GetSupportedConversions[k] = <<source, destination>>

\* the k-th call is a ConvertFile call; its return
ConvertFileReturned(k) == k <= Len(log) /\ log[k].op = "ConvertFile"

\* C10 as stated: ConvertFile dispatches to a conversion exactly for the six
\* pairs of GetSupportedConversions, in its order midi->seq, midi->syx,
\* seq->midi, seq->syx, syx->midi, syx->seq; every other pair returns an
\* unsupported-conversion error.
C10_DispatchOrUnsupported ==
    /\ GetSupportedConversions =
        << <<"midi", "seq">>, <<"midi", "syx">>, <<"seq", "midi">>,
           <<"seq", "syx">>, <<"syx", "midi">>, <<"syx", "seq">> >>
    /\ \A k \in 1..Len(log) :
        ConvertFileReturned(k) =>
            LET r == log[k].ret
            IN  IF Supported(r.inputFormat, r.outputFormat)
                THEN r.conv # "none"
                ELSE r.conv = "none" /\ r.err = "unsupported conversion"

\* C10 amended: ConvertFile returns "failed to read input file" when the
\* source extension is unknown and the input cannot be read, then "cannot
\* determine output format from filename" when the destination extension is
\* unknown, then "failed to read input file" when the input cannot be read;
\* otherwise it dispatches to a conversion exactly for the six pairs of
\* GetSupportedConversions (the source being the format of the extension or,
\* if that is unknown, of the content), to the conversion of that pair, and
\* every other pair, same-format pairs and a source unknown by content
\* included, returns an unsupported-conversion error.
C10_DispatchMatrix ==
    /\ GetSupportedConversions =
        << <<"midi", "seq">>, <<"midi", "syx">>, <<"seq", "midi">>,
           <<"seq", "syx">>, <<"syx", "midi">>, <<"syx", "seq">> >>
    /\ \A k \in 1..Len(log) :
        ConvertFileReturned(k) =>
            LET r == log[k].ret
                inFile == r.files
                byExt == DetectFormat(input.inputPath)
                source == IF byExt = FormatUnknown /\ inFile.exists
                          THEN DetectFormatFromContent(inFile.data)
                          ELSE byExt
                destination == DetectFormat(input.outputPath)
            IN  IF byExt = FormatUnknown /\ ~inFile.exists
                THEN r.conv = "none" /\ r.err = "failed to read input file"
                ELSE IF destination = FormatUnknown
                THEN /\ r.conv = "none"
                     /\ r.err = "cannot determine output format from filename"
                ELSE IF ~inFile.exists
                THEN r.conv = "none" /\ r.err = "failed to read input file"
                ELSE IF Supported(source, destination)
                THEN /\ r.conv # "none"
                     /\ DecoderOf(r.conv) = CASE source = FormatMIDI -> "ParseMIDI"
                                              [] source = FormatSeq -> "ParseSeq"
                                              [] source = FormatSyx -> "ParseSyx"
                     /\ EncoderOf(r.conv) =
                            CASE destination = FormatMIDI -> "GenerateMIDI"
                              [] destination = FormatSeq -> "GenerateSeq"
                              [] destination = FormatSyx -> "GenerateSyx"
                ELSE r.conv = "none" /\ r.err = "unsupported conversion"

\* ConvertFile returned "unsupported conversion" for a readable .seq file and
\* a .seq destination
C10_Witness ==
    /\ ConvertFileReturned(1)
    /\ log[1].ret.files.exists
    /\ DetectFormat(input.inputPath) = FormatSeq
    /\ DetectFormat(input.outputPath) = FormatSeq
    /\ log[1].ret.conv = "none"
    /\ log[1].ret.err = "unsupported conversion"


\* the errors ConvertFile returns before it writes
ErrorsBeforeWrite ==
    {"cannot determine output format from filename",
     "failed to read input file", "unsupported conversion",
     "conversion failed"}

\* C11: ConvertFile has no partial success: when it returns one of the errors
\* undetermined output format, unreadable input, unsupported pair or failed
\* conversion, the output path is as it was before the call, and when it
\* returns nil the output file holds exactly the buffer the encoder returned.
C11_NoPartialSuccess ==
    \A k \in 1..Len(log) :
        ConvertFileReturned(k) =>
            LET r == log[k].ret
                out == input.outputPath
                dec == Decode(DecoderOf(r.conv), device, r.files.data)
                enc == Encode(EncoderOf(r.conv), device, dec.pattern)
            IN  /\ r.err \in ErrorsBeforeWrite => files[out] = r.before[out]
                /\ (r.err = NoErr /\ ~r.panic) =>
                        /\ r.conv # "none"
                        /\ enc.err = NoErr
                        /\ files[out].exists
                        /\ files[out].data = enc.data

\* ConvertFile returned nil after writing the 41 bytes of GenerateSyx over an
\* older file
C11_Witness ==
    /\ ConvertFileReturned(1)
    /\ log[1].ret.err = NoErr
    /\ ~log[1].ret.panic
    /\ log[1].ret.conv = "SeqToSyx"
    /\ device = "td3"
    /\ log[1].ret.before[input.outputPath].exists
    /\ Len(files[input.outputPath].data.bytes) = 41


----------------------------------------------------------------------------
(* The callers of the format detection: a file name or a buffer, then one  *)
(* call of DetectFormat or DetectFormatFromContent.                        *)

\* directories and base names, some with dots of their own
Stems ==
    {<<"a">>, <<>>, <<"a", ".", "s", "e", "q">>,
     <<"d", ".", "m", "i", "d", "/", "a">>, <<"d", "/", "a", ".", "b">>,
     <<"M", "I", "D">>}

\* what follows the stem: extensions in lower, upper and mixed case, near
\* misses, and nothing
Suffixes ==
    {<<>>, <<".">>,
     <<".", "m", "i", "d">>, <<".", "M", "I", "D">>, <<".", "M", "i", "d">>,
     <<".", "m", "i", "d", "i">>, <<".", "M", "I", "D", "I">>,
     <<".", "s", "e", "q">>, <<".", "S", "E", "Q">>, <<".", "s", "e", "Q">>,
     <<".", "s", "y", "x">>, <<".", "S", "Y", "X">>, <<".", "S", "y", "x">>,
     <<".", "t", "x", "t">>, <<".", "m", "i">>, <<".", "m", "i", "d", "x">>,
     <<".", "s", "e", "q", "q">>, <<"m", "i", "d">>, <<"s", "y", "x">>,
     <<".", "s", "y", "x", "/", "a">>}

Filenames == {stem \o suffix : stem \in Stems, suffix \in Suffixes}

\* buffers of fewer than four bytes and of four, besides the codecs' buffers
ShortBuffers ==
    {Raw(b) : b \in {<<240>>, <<240, 0, 32>>, <<240, 0, 32, 50>>,
                     <<77, 84, 104>>, <<77, 84, 104, 100>>,
                     <<77, 84, 104, 101>>, <<0, 1>>, <<0, 1, 2, 3>>,
                     <<35, 152, 84, 118>>, <<247>>}}

ContentInputs == ShortBuffers \cup BufferInputs

InitDetect ==
    /\ input \in {[kind |-> "name", name |-> n] : n \in Filenames}
                 \cup {[kind |-> "content", data |-> d] : d \in ContentInputs}
    /\ cur = Nothing
    /\ log = <<>>
    /\ m = NewMIDIConverter
    /\ device = "td3"
    /\ files = <<>>

CallDetectFormat ==
    /\ log = <<>>
    /\ input.kind = "name"
    /\ log' = Append(log, [op |-> "DetectFormat",
                           ret |-> DetectFormat(input.name)])
    /\ UNCHANGED <<input, cur, m, device, files>>

CallDetectFormatFromContent ==
    /\ log = <<>>
    /\ input.kind = "content"
    /\ log' = Append(log, [op |-> "DetectFormatFromContent",
                           ret |-> DetectFormatFromContent(input.data)])
    /\ UNCHANGED <<input, cur, m, device, files>>

NextDetect ==
    \/ CallDetectFormat
    \/ CallDetectFormatFromContent

SpecDetect == InitDetect /\ [][NextDetect]_vars

\* the k-th call is a call of that function
Called(k, name) == k <= Len(log) /\ log[k].op = name

\* the format the listed extensions stand for, Unknown for every other one
FormatOfExtension(ext) ==
    IF ext \in {<<".", "m", "i", "d">>, <<".", "m", "i", "d", "i">>}
    THEN FormatMIDI
    ELSE IF ext = <<".", "s", "e", "q">> THEN FormatSeq
    ELSE IF ext = <<".", "s", "y", "x">> THEN FormatSyx
    ELSE FormatUnknown

\* C12 as stated: DetectFormat returns MIDI for the extensions .mid and
\* .midi, seq for .seq, syx for .syx, and Unknown for every other extension
\* and for names without one; the result depends only on the extension.
C12_DetectByExtension ==
    \A k \in 1..Len(log) :
        Called(k, "DetectFormat")
            => log[k].ret = FormatOfExtension(Ext(input.name))

\* C12 amended: DetectFormat returns MIDI when the extension, with its
\* letters turned to lower case, is .mid or .midi, seq when it is .seq, syx
\* when it is .syx, and Unknown for every other extension and for names
\* without one; the result depends only on the extension.
C12_DetectByLowerExtension ==
    \A k \in 1..Len(log) :
        Called(k, "DetectFormat")
            => log[k].ret = FormatOfExtension(ToLower(Ext(input.name)))

\* DetectFormat returned seq for a name ending in .SEQ
C12_Witness ==
    /\ Called(1, "DetectFormat")
    /\ Ext(input.name) = <<".", "S", "E", "Q">>
    /\ log[1].ret = FormatSeq

\* C13 as stated: DetectFormatFromContent returns MIDI if the first four
\* bytes are MThd, otherwise SysEx if the first byte is F0, otherwise seq if
\* there are at least four bytes, otherwise Unknown.
C13_ContentByMarker ==
    \A k \in 1..Len(log) :
        Called(k, "DetectFormatFromContent") =>
            LET b == input.data.bytes
            IN  log[k].ret =
                    IF Len(b) >= 4 /\ SubSeq(b, 1, 4) = <<77, 84, 104, 100>>
                    THEN FormatMIDI
                    ELSE IF Len(b) >= 1 /\ b[1] = 240 THEN FormatSyx
                    ELSE IF Len(b) >= 4 THEN FormatSeq
                    ELSE FormatUnknown

\* C13 amended: DetectFormatFromContent returns Unknown for every buffer of
\* fewer than four bytes, whatever its first byte; for a buffer of at least
\* four bytes it returns MIDI if the first four are MThd, otherwise SysEx if
\* the first is F0, otherwise seq.
C13_ContentLengthFirst ==
    \A k \in 1..Len(log) :
        Called(k, "DetectFormatFromContent") =>
            LET b == input.data.bytes
            IN  log[k].ret =
                    IF Len(b) < 4 THEN FormatUnknown
                    ELSE IF SubSeq(b, 1, 4) = <<77, 84, 104, 100>>
                    THEN FormatMIDI
                    ELSE IF b[1] = 240 THEN FormatSyx
                    ELSE FormatSeq

\* DetectFormatFromContent returned Unknown for the three bytes F0 00 20
C13_Witness ==
    /\ Called(1, "DetectFormatFromContent")
    /\ input.data.bytes = <<240, 0, 32>>
    /\ log[1].ret = FormatUnknown


----------------------------------------------------------------------------
(* The callers of one Converter: New(device), then up to MaxCalls calls of *)
(* SetDevice, GetDevice and the six conversions, in any order.             *)

\* the buffers passed to the conversions: a .seq, a .syx and a MIDI buffer
ConverterInputs ==
    {Raw(GenerateSeq(p).data) : p \in BasePatterns}
    \cup {Raw(GenerateSyx(p).data) : p \in BasePatterns}
    \cup {MidiFile(TRUE, 480, << <<Ev(0, NoteOnMsg(0, 60, 100))>> >>),
          Raw(<<1, 2, 3>>)}

\* c := New(d)
InitDevice ==
    /\ \E d \in Devices, b \in ConverterInputs :
        /\ input = [kind |-> "converter", device |-> d, data |-> b]
        /\ device = d
    /\ cur = Nothing
    /\ log = <<>>
    /\ m = NewMIDIConverter
    /\ files = <<>>

\* a SetDevice that leaves c.device as it was
CallSetDevice_Dropped ==
    /\ Len(log) < MaxCalls
    /\ \E d \in Devices :
        log' = Append(log, [op |-> "SetDevice", arg |-> d, ret |-> device])
    /\ UNCHANGED <<input, cur, m, device, files>>

\* c.SetDevice(d); the entry keeps the device selected after the call
CallSetDevice ==
    /\ Len(log) < MaxCalls
    /\ \E d \in Devices :
        /\ device' = d
        /\ log' = Append(log, [op |-> "SetDevice", arg |-> d, ret |-> d])
    /\ UNCHANGED <<input, cur, m, files>>

\* c.GetDevice()
CallGetDevice ==
    /\ Len(log) < MaxCalls
    /\ log' = Append(log, [op |-> "GetDevice", arg |-> "none", ret |-> device])
    /\ UNCHANGED <<input, cur, m, device, files>>

\* one of the six conversions on the input buffer; the entry keeps what it
\* returned and the device selected after the call
CallConvert ==
    /\ Len(log) < MaxCalls
    /\ UNCHANGED <<input, cur, m, device, files>>
    /\ \E name \in {"MIDIToSeq", "MIDIToSyx", "SeqToMIDI", "SeqToSyx",
                    "SyxToMIDI", "SyxToSeq"} :
        LET r == Convert(name, device, input.data)
        IN  log' = Append(log, [op |-> name, arg |-> "none", ret |-> device',
                                data |-> r.data, err |-> r.err])

NextDevice ==
    \/ CallSetDevice
    \/ CallGetDevice
    \/ CallConvert

SpecDevice == InitDevice /\ [][NextDevice]_vars

\* the device passed to the last SetDevice among the first k calls, or to
\* New if there is none
LastSet(k) ==
    LET sets == {j \in 1..k : log[j].op = "SetDevice"}
    IN  IF sets = {} THEN input.device
        ELSE log[CHOOSE j \in sets : \A i \in sets : i <= j].arg

\* C14: after any sequence of New, SetDevice and conversion calls GetDevice
\* returns the device of the most recent SetDevice (of New if there was
\* none); a conversion leaves the selected device as it is and returns what
\* the codecs of the device selected at the time of the call return.
C14_DeviceSelected ==
    /\ device = LastSet(Len(log))
    /\ \A k \in 1..Len(log) :
        /\ log[k].ret = LastSet(k)
        /\ log[k].op \notin {"SetDevice", "GetDevice"} =>
            LET dec == Decode(DecoderOf(log[k].op), LastSet(k), input.data)
                enc == Encode(EncoderOf(log[k].op), LastSet(k), dec.pattern)
            IN  IF dec.err # NoErr
                THEN log[k].err = dec.err /\ log[k].data = NilData
                ELSE log[k].err = enc.err /\ log[k].data = enc.data

\* a converter made for the TD-3 was switched to the mock device, converted
\* with the mock codec, and GetDevice then returned the mock device
C14_Witness ==
    /\ Len(log) = 3
    /\ input.device = "td3"
    /\ log[1].op = "SetDevice" /\ log[1].arg = "mock"
    /\ log[2].op = "SeqToSyx"
    /\ log[2].data = Raw(<<240, 247>>)
    /\ log[3].op = "GetDevice"
    /\ log[3].ret = "mock"


----------------------------------------------------------------------------
(* The callers of one MIDIConverter: NewMIDIConverter(), then ParseMIDI on *)
(* one file and on another, or on the second only.                         *)

\* files parsed first: with and without a tempo event, metric or not
FirstFiles ==
    {MidiFile(TRUE, res, << <<Ev(0, msg), Ev(res \div 4, NoteOnMsg(0, 60, 100))>> >>) :
        res \in {96, 480},
        msg \in {TempoMsg(600000), TempoMsg(0), NoteOnMsg(0, 62, 101)}}
    \cup {MidiFile(FALSE, 0, << <<Ev(0, TempoMsg(250000))>> >>),
          MidiFile(TRUE, 96, <<>>), Raw(<<>>)}

\* tracks for the second pass of ParseMIDI (resolution 480, 120 ticks per
\* step): 60 at step 0 and a note up to 3 semitones away at step 1 or at step
\* 2, three notes in a row, and 60 at steps 0 and 15
SlideTieTracks ==
    {<<Ev(0, NoteOnMsg(0, 60, 100)), Ev(d, NoteOnMsg(0, n, 100))>> :
        d \in {120, 240}, n \in 57..63}
    \cup {<<Ev(0, NoteOnMsg(0, 60, 100)), Ev(120, NoteOnMsg(0, 60, 100)),
            Ev(120, NoteOnMsg(0, 61, 100))>>,
          <<Ev(0, NoteOnMsg(0, 60, 100)), Ev(1800, NoteOnMsg(0, 60, 100))>>}

\* files parsed second
SecondFiles ==
    {MidiFile(res > 0, res, << <<Ev(0, msg), Ev(d, NoteOnMsg(0, 64, 90))>> >>) :
        res \in {0, 96, 480}, d \in {0, 24, 120},
        msg \in {TempoMsg(500000), NoteOnMsg(0, 60, 100)}}
    \cup {MidiFile(TRUE, 480, <<>>), Raw(MThd \o <<0, 0>>)}
    \cup {MidiFile(TRUE, 480, <<tr>>) : tr \in SlideTieTracks}

InitMidi ==
    /\ input \in {[kind |-> "midi", first |-> a, second |-> b] :
                    a \in FirstFiles, b \in SecondFiles}
    /\ cur = Nothing
    /\ log = <<>>
    /\ m = NewMIDIConverter
    /\ device = "td3"
    /\ files = <<>>

\* m.ParseMIDI(data); the entry keeps the argument
ParseMIDICall(data) ==
    LET r == ParseMIDI(m, data)
    IN  /\ log' = Append(log, [op |-> "ParseMIDI", arg |-> data,
                               ret |-> Ret(r.pattern, NilData, r.err, r.panic)])
        /\ m' = r.m
        /\ UNCHANGED <<input, cur, device, files>>

CallParseFirst ==
    /\ log = <<>>
    /\ ParseMIDICall(input.first)

CallParseSecond ==
    /\ Len(log) <= 1
    /\ ParseMIDICall(input.second)

NextMidi ==
    \/ CallParseFirst
    \/ CallParseSecond

SpecMidi == InitMidi /\ [][NextMidi]_vars

\* C15: ParseMIDI shares no state across calls: whatever the MIDIConverter
\* parsed before, a call returns the pattern (tempo and steps) and the error
\* that a new MIDIConverter returns for the same bytes; a file without a
\* tempo event yields tempo 120.
C15_NoSharedState ==
    \A k \in 1..Len(log) :
        log[k].op = "ParseMIDI" =>
            LET fresh == ParseMIDI(NewMIDIConverter, log[k].arg)
            IN  /\ log[k].ret.err = fresh.err
                /\ log[k].ret.panic = fresh.panic
                /\ log[k].ret.pattern = fresh.pattern


----------------------------------------------------------------------------
(* ParseSeq and GenerateSeq field by field (calls of Spec)                 *)

\* the k-th call is ParseSeq and returned a pattern
ParseSeqAccepted(k) == Decoded(k) /\ log[k].op = "ParseSeq"

\* the byte at a 0-based offset of the buffer passed to the k-th call
ArgByte(k, off) == ArgData(k).bytes[off + 1]

\* C16: for every accepted .seq buffer and every decoded step i, the note is
\* min(127, hi*16 + lo + 24) for the bytes hi, lo at offset 0x24 + 2i, for
\* all byte values 0..255 (no wrap-around of the 8-bit note).
C16_NoteClamped ==
    \A k \in 1..Len(log) :
        ParseSeqAccepted(k) =>
            \A i \in 0..(Len(log[k].ret.pattern.Steps) - 1) :
                LET v == ArgByte(k, 36 + 2 * i) * 16
                            + ArgByte(k, 37 + 2 * i) + 24
                IN  log[k].ret.pattern.Steps[i + 1].Note
                        = (IF v > 127 THEN 127 ELSE v)

\* C17: ParseSeq returns a pattern with exactly L steps and Length L, where L
\* is data[0x86]*16 + data[0x87] if that is in 1..16, and 16 if it is 0 or
\* more than 16.
C17_SeqLength ==
    \A k \in 1..Len(log) :
        ParseSeqAccepted(k) =>
            LET v == ArgByte(k, 134) * 16 + ArgByte(k, 135)
                L == IF v >= 1 /\ v <= 16 THEN v ELSE 16
            IN  /\ Len(log[k].ret.pattern.Steps) = L
                /\ log[k].ret.pattern.Length = L

\* ParseSeq returned 16 steps for a buffer whose length bytes are 00 00
C17_Witness ==
    /\ ParseSeqAccepted(1)
    /\ ArgByte(1, 134) = 0 /\ ArgByte(1, 135) = 0
    /\ Len(log[1].ret.pattern.Steps) = 16

\* bit i of the mask stored as the four bytes b0 b1 b2 b3 at offset off of
\* the buffer passed to the k-th call: b1 + (b0<<4) + (b3<<8) + (b2<<12)
StoredMaskBit(k, off, i) ==
    LET mask == ArgByte(k, off + 1) + ArgByte(k, off) * 16
                    + ArgByte(k, off + 3) * 256 + ArgByte(k, off + 2) * 4096
    IN  (mask \div (2 ^ i)) % 2

\* C18: for every accepted .seq buffer and every decoded step i: gate = (rest
\* bit i is 0), tie = (tie bit i is 0) and i > 0, accent and slide = bit 0 of
\* the second byte of the step's accent and slide pairs, velocity = 127 if
\* accent, else 100.
C18_SeqFlags ==
    \A k \in 1..Len(log) :
        ParseSeqAccepted(k) =>
            \A i \in 0..(Len(log[k].ret.pattern.Steps) - 1) :
                LET step == log[k].ret.pattern.Steps[i + 1]
                IN  /\ step.Gate = (StoredMaskBit(k, 142, i) = 0)
                    /\ step.Tie = (StoredMaskBit(k, 138, i) = 0 /\ i > 0)
                    /\ step.Accent = (ArgByte(k, 69 + 2 * i) % 2 = 1)
                    /\ step.Slide = (ArgByte(k, 101 + 2 * i) % 2 = 1)
                    /\ step.Velocity = (IF step.Accent THEN 127 ELSE 100)

\* ParseSeq decoded a buffer whose first tie byte (bits 4..7 of the mask) is
\* 0D and whose second (bits 0..3) is 08: steps 1, 2 and 5 are tied, step 3
\* is not, and step 0 is not although its bit is 0
C18_Witness ==
    /\ ParseSeqAccepted(1)
    /\ ArgByte(1, 138) = 13 /\ ArgByte(1, 139) = 8
    /\ Len(log[1].ret.pattern.Steps) = 16
    /\ ~log[1].ret.pattern.Steps[1].Tie
    /\ log[1].ret.pattern.Steps[2].Tie
    /\ log[1].ret.pattern.Steps[3].Tie
    /\ ~log[1].ret.pattern.Steps[4].Tie
    /\ log[1].ret.pattern.Steps[6].Tie

\* the step GenerateSeq encodes in slot i (0-based) of the pattern passed to
\* the k-th call: the pattern's step, or the zero step beyond its steps
Slot(k, i) ==
    IF i < Len(ArgPattern(k).Steps) THEN ArgPattern(k).Steps[i + 1]
    ELSE [Note |-> 0, Accent |-> FALSE, Slide |-> FALSE, Gate |-> FALSE,
          Tie |-> FALSE, Velocity |-> 0]

\* the 16-bit mask with bit i set iff has(i)
MaskWhere(has(_)) ==
    LET bit(i) == IF has(i) THEN 2 ^ i ELSE 0
        sum4(i) == bit(i) + bit(i + 1) + bit(i + 2) + bit(i + 3)
    IN  sum4(0) + sum4(4) + sum4(8) + sum4(12)

\* the four nibble bytes (m>>4)&F, m&F, (m>>12)&F, (m>>8)&F
NibbleBytes(mask) ==
    <<(mask \div 16) % 16, mask % 16, (mask \div 4096) % 16,
      (mask \div 256) % 16>>

\* C19: GenerateSeq writes for each of the 16 slots i the note pair
\* (v/16, v%16) with v = max(0, note - 24), 01 in the second accent and slide
\* byte iff the flag is set, tie mask bit i = 1 iff the step is not tied, rest
\* mask bit i = 1 iff gate is false, slots beyond the pattern's steps as rests
\* with note 0, and each mask as four nibble bytes at 0x8A and 0x8E that the
\* decoder's unpacking turns back into the mask.
C19_SeqLayout ==
    \A k \in 1..Len(log) :
        (GenerateSeqReturned(k) /\ ~ArgPattern(k).nil) =>
            LET b == log[k].ret.data.bytes
                tie == MaskWhere(LAMBDA i : ~Slot(k, i).Tie)
                rest == MaskWhere(LAMBDA i : ~Slot(k, i).Gate)
            IN  /\ \A i \in 0..15 :
                    LET v == IF Slot(k, i).Note - 24 > 0
                             THEN Slot(k, i).Note - 24 ELSE 0
                    IN  /\ b[37 + 2 * i] = v \div 16
                        /\ b[38 + 2 * i] = v % 16
                        /\ b[69 + 2 * i] = 0
                        /\ b[70 + 2 * i] = (IF Slot(k, i).Accent THEN 1 ELSE 0)
                        /\ b[101 + 2 * i] = 0
                        /\ b[102 + 2 * i] = (IF Slot(k, i).Slide THEN 1 ELSE 0)
                /\ SubSeq(b, 139, 142) = NibbleBytes(tie)
                /\ SubSeq(b, 143, 146) = NibbleBytes(rest)
                /\ UnpackMask(b, 138) = tie
                /\ UnpackMask(b, 142) = rest

\* GenerateSeq encoded a pattern of 9 steps whose last is tied and has note
\* 36: the note pair of slot 8 is 00 0C, tie bit 8 is 0, and slots 9..15 are
\* rests
C19_Witness ==
    /\ GenerateSeqReturned(1)
    /\ ~ArgPattern(1).nil
    /\ Len(ArgPattern(1).Steps) = 9
    /\ ArgPattern(1).Steps[9].Tie
    /\ ArgPattern(1).Steps[9].Note = 36
    /\ log[1].ret.data.bytes[53] = 0 /\ log[1].ret.data.bytes[54] = 12
    /\ SubSeq(log[1].ret.data.bytes, 141, 142) = <<15, 14>>
    /\ SubSeq(log[1].ret.data.bytes, 145, 146) = <<15, 14>>

\* C20: whenever ParseSyx succeeds it returns exactly 16 steps with Length
\* 16, step i having note = (data[8+2i] & 0x7F) + 24, gate, accent, slide and
\* tie = bits 0..3 of data[9+2i], and velocity 127 if accent, else 100; no
\* step is read from the checksum byte or the terminating F7 (the last two
\* bytes of the buffer).
C20_SyxSteps ==
    \A k \in 1..Len(log) :
        (Decoded(k) /\ log[k].op = "ParseSyx") =>
            LET steps == log[k].ret.pattern.Steps
                n == Len(ArgData(k).bytes)
            IN  /\ Len(steps) = 16
                /\ log[k].ret.pattern.Length = 16
                /\ \A i \in 0..(Len(steps) - 1) :
                    LET note == ArgByte(k, 8 + 2 * i)
                        attr == ArgByte(k, 9 + 2 * i)
                    IN  /\ steps[i + 1].Note = (note % 128) + 24
                        /\ steps[i + 1].Gate = (attr % 2 = 1)
                        /\ steps[i + 1].Accent = ((attr \div 2) % 2 = 1)
                        /\ steps[i + 1].Slide = ((attr \div 4) % 2 = 1)
                        /\ steps[i + 1].Tie = ((attr \div 8) % 2 = 1)
                        /\ steps[i + 1].Velocity =
                                (IF steps[i + 1].Accent THEN 127 ELSE 100)
                        /\ 9 + 2 * i < n - 2


----------------------------------------------------------------------------
(* GenerateSyx byte by byte (calls of Spec)                                *)

\* the k-th call is GenerateSyx on a pattern that is not nil
GenerateSyxReturned(k) ==
    /\ k <= Len(log)
    /\ log[k].op = "GenerateSyx"
    /\ ~ArgPattern(k).nil

\* C21: for every non-nil pattern GenerateSyx returns, without error, the 41
\* bytes F0 00 20 32 <deviceId> <modelId> <command>, 16 pairs (noteByte,
\* attrByte), a checksum and F7, with noteByte = (note - 24) & 0x7F if note >=
\* 24 else note & 0x7F, attrByte = gate + 2 accent + 4 slide + 8 tie, all-zero
\* pairs beyond the pattern's steps, and each of the bits 0..6 of the checksum
\* the parity of that bit over the 32 payload bytes (bit 7 is 0).
C21_SyxFrame ==
    \A k \in 1..Len(log) :
        GenerateSyxReturned(k) =>
            LET b == log[k].ret.data.bytes
                flag(f, w) == IF f THEN w ELSE 0
            IN  /\ log[k].ret.err = NoErr
                /\ Len(b) = 41
                /\ SubSeq(b, 1, 7) = <<240, 0, 32, 50, 0, 1, 64>>
                /\ \A i \in 0..15 :
                    LET step == Slot(k, i)
                    IN  /\ b[8 + 2 * i] =
                              (IF step.Note >= 24 THEN (step.Note - 24) % 128
                               ELSE step.Note % 128)
                        /\ b[9 + 2 * i] =
                              flag(step.Gate, 1) + flag(step.Accent, 2)
                                + flag(step.Slide, 4) + flag(step.Tie, 8)
                        /\ (i >= Len(ArgPattern(k).Steps) =>
                                b[8 + 2 * i] = 0 /\ b[9 + 2 * i] = 0)
                /\ b[40] < 128
                /\ \A bit \in 0..6 :
                    (b[40] \div (2 ^ bit)) % 2 =
                        Cardinality({j \in 8..39 : (b[j] \div (2 ^ bit)) % 2 = 1}) % 2
                /\ b[41] = 247

\* GenerateSyx encoded the two steps (60, gate) and (23, gate, slide): the
\* pairs are 24 01 and 17 05, the rest is zero and the checksum is 0x37
C21_Witness ==
    /\ GenerateSyxReturned(1)
    /\ Len(ArgPattern(1).Steps) = 2
    /\ ArgPattern(1).Steps[1].Note = 60
    /\ ArgPattern(1).Steps[2].Note = 23
    /\ SubSeq(log[1].ret.data.bytes, 8, 13) = <<36, 1, 23, 5, 0, 0>>
    /\ log[1].ret.data.bytes[40] = 55


----------------------------------------------------------------------------
(* ParseMIDI step by step (calls of Spec and of SpecMidi)                  *)

\* the last call was ParseMIDI and it returned a pattern
ParseMIDIReturned ==
    /\ Len(log) > 0
    /\ log[Len(log)].op = "ParseMIDI"
    /\ log[Len(log)].ret.err = NoErr
    /\ ~log[Len(log)].ret.panic

\* the positions <<track, event>> of the note-on events (status 0x90-0x9F,
\* velocity > 0) of the file whose tick falls on step s, for ticksPerStep > 0
NoteOnsOfStep(tracks, ticksPerStep, s) ==
    UNION {{<<t, e>> : e \in
                {e \in 1..Len(tracks[t]) :
                    LET msg == tracks[t][e].Message
                        tick == TickAt(tracks[t], e)
                    IN  /\ Len(msg) >= 3
                        /\ msg[1] \in 144..159
                        /\ msg[3] > 0
                        /\ s = (IF tick.carry = 0
                                THEN (tick.low \div ticksPerStep) % 16
                                ELSE StepIndex(tick, ticksPerStep))}}
           : t \in 1..Len(tracks)}

\* the last position in scan order: track order, then event order
LastInScanOrder(positions) ==
    CHOOSE p \in positions :
        \A q \in positions :
            q = p \/ p[1] > q[1] \/ (p[1] = q[1] /\ p[2] > q[2])

\* C22: ParseMIDI, when it returns a pattern, returns 16 steps; step s is
\* gated iff some note-on (status 0x90-0x9F, velocity > 0) has
\* (tick / ticksPerStep) mod 16 = s with ticksPerStep = ticksPerQuarter / 4; a
\* gated step has the note and velocity of the last such note-on in scan order
\* and accent = velocity > 100; note-off events change no step.
C22_Quantized ==
    ParseMIDIReturned =>
        LET steps == log[Len(log)].ret.pattern.Steps
            tracks == (IF "arg" \in DOMAIN log[Len(log)]
                       THEN log[Len(log)].arg ELSE ArgData(Len(log))).smf.tracks
            ticksPerStep == m.ticksPerQuarter \div 4
        IN  /\ Len(steps) = 16
            /\ \A s \in 0..15 :
                LET hits == IF ticksPerStep > 0
                            THEN NoteOnsOfStep(tracks, ticksPerStep, s) ELSE {}
                IN  /\ steps[s + 1].Gate = (hits # {})
                    /\ hits # {} =>
                        LET p == LastInScanOrder(hits)
                            msg == tracks[p[1]][p[2]].Message
                        IN  /\ steps[s + 1].Note = msg[2]
                            /\ steps[s + 1].Velocity = msg[3]
                            /\ steps[s + 1].Accent = (msg[3] > 100)

\* ParseMIDI read a track with a note-on for 60 and then one for 62 with
\* velocity 101, both at tick 0: step 0 has note 62 with accent, and no other
\* step is gated
C22_Witness ==
    /\ ParseMIDIReturned
    /\ Len(log) = 1
    /\ input.kind = "buffer"
    /\ input.data.smf.tracks =
            << <<Ev(0, NoteOnMsg(0, 60, 100)), Ev(0, NoteOnMsg(0, 62, 101))>> >>
    /\ log[1].ret.pattern.Steps[1].Note = 62
    /\ log[1].ret.pattern.Steps[1].Accent
    /\ \A s \in 2..16 : ~log[1].ret.pattern.Steps[s].Gate


\* the first gated step after step s (1-based), or 0 when there is none
NextGated(steps, s) ==
    IF \E j \in (s + 1)..Len(steps) : steps[j].Gate
    THEN CHOOSE j \in (s + 1)..Len(steps) :
            /\ steps[j].Gate
            /\ \A i \in (s + 1)..(j - 1) : ~steps[i].Gate
    ELSE 0

\* whether two notes differ by 1 or 2 semitones, up or down
SemitonesApart(a, b) == (a - b) \in {-2, -1, 1, 2}

\* C23 as stated: a gated step is slide iff the next gated step, wherever it
\* is, differs in pitch by 1 or 2 semitones, and tie iff that step has the
\* same pitch; ungated steps and steps with no gated step after them get
\* neither flag, and no step gets both.
C23_NextGatedStep ==
    ParseMIDIReturned =>
        LET steps == log[Len(log)].ret.pattern.Steps
        IN  \A s \in 1..Len(steps) :
                LET g == NextGated(steps, s)
                    compared == steps[s].Gate /\ g # 0
                IN  /\ steps[s].Slide =
                        (compared /\ SemitonesApart(steps[g].Note, steps[s].Note))
                    /\ steps[s].Tie =
                        (compared /\ steps[g].Note = steps[s].Note)
                    /\ ~(steps[s].Slide /\ steps[s].Tie)

\* C23 amended: a step is slide iff it and the step right after it are both
\* gated and their pitches differ by 1 or 2 semitones, and tie iff both are
\* gated and have the same pitch; a step that is not gated, whose successor is
\* not gated, or that is the last of the 16 gets neither flag, and no step
\* gets both.
C23_AdjacentStep ==
    ParseMIDIReturned =>
        LET steps == log[Len(log)].ret.pattern.Steps
        IN  \A s \in 1..Len(steps) :
                LET compared == /\ s < Len(steps)
                                /\ steps[s].Gate
                                /\ steps[s + 1].Gate
                IN  /\ steps[s].Slide =
                        (compared
                            /\ SemitonesApart(steps[s + 1].Note, steps[s].Note))
                    /\ steps[s].Tie =
                        (compared /\ steps[s + 1].Note = steps[s].Note)
                    /\ ~(steps[s].Slide /\ steps[s].Tie)

\* ParseMIDI read 60 at step 0 and 61 at step 2 with step 1 empty: step 0 is
\* gated and has neither flag
C23_Witness ==
    /\ ParseMIDIReturned
    /\ log[Len(log)].arg.smf.tracks =
            << <<Ev(0, NoteOnMsg(0, 60, 100)), Ev(240, NoteOnMsg(0, 61, 100))>> >>
    /\ log[Len(log)].ret.pattern.Steps[1].Gate
    /\ ~log[Len(log)].ret.pattern.Steps[2].Gate
    /\ log[Len(log)].ret.pattern.Steps[3].Gate
    /\ ~log[Len(log)].ret.pattern.Steps[1].Slide
    /\ ~log[Len(log)].ret.pattern.Steps[1].Tie


----------------------------------------------------------------------------
(* The callers of GenerateMIDI: NewMIDIConverter(), possibly ParseMIDI on  *)
(* a file, which leaves its resolution in the converter, then GenerateMIDI *)
(* on a pattern.                                                           *)

\* patterns passed to GenerateMIDI have 0..MaxGenSteps steps
MaxGenSteps == 4

\* a rest, a note, a note with slide, a tied note, a tie that is not gated
GenSteps ==
    {ZeroStep,
     StepOf(60, TRUE, FALSE, FALSE, FALSE, 100),
     StepOf(62, TRUE, FALSE, TRUE, FALSE, 100),
     StepOf(60, TRUE, FALSE, FALSE, TRUE, 100),
     StepOf(0, FALSE, FALSE, FALSE, TRUE, 0)}

\* tempos of the patterns: 120, 0 and -10 bpm
GenTempos == {Bpm(120), Bpm(0), Bpm(-10)}

GenPatterns ==
    {NilPattern}
    \cup UNION {{PatternOf(steps) : steps \in [1..n -> GenSteps]} :
                    n \in 0..MaxGenSteps}
    \cup {[PatternOf(steps) EXCEPT !.Tempo = t] :
            steps \in UNION {[1..n -> GenSteps] : n \in 0..1},
            t \in GenTempos}

\* files without notes, of resolution 2, 4, 8 and 96 ticks per quarter note
GenFiles == {MidiFile(TRUE, res, << <<>> >>) : res \in {2, 4, 8, 96}}

InitGen ==
    /\ input \in {[kind |-> "generate", file |-> f, pattern |-> p] :
                    f \in GenFiles, p \in GenPatterns}
    /\ cur = Nothing
    /\ log = <<>>
    /\ m = NewMIDIConverter
    /\ device = "td3"
    /\ files = <<>>

\* m.ParseMIDI(file), before any other call
CallParseFile ==
    /\ log = <<>>
    /\ ParseMIDICall(input.file)

\* m.GenerateMIDI(pattern), once; the entry keeps the argument, and
\* ret.pattern is the caller's pattern after the call
CallGenerate ==
    /\ \A k \in 1..Len(log) : log[k].op # "GenerateMIDI"
    /\ LET r == GenerateMIDI(m, input.pattern)
       IN  log' = Append(log, [op |-> "GenerateMIDI", arg |-> input.pattern,
                               ret |-> Ret(r.pattern, r.data, r.err, FALSE)])
    /\ UNCHANGED <<input, cur, m, device, files>>

NextGen ==
    \/ CallParseFile
    \/ CallGenerate

SpecGen == InitGen /\ [][NextGen]_vars



\* the call of GenerateMIDI on a pattern that is not nil, if there is one
Generated ==
    \E k \in 1..Len(log) : log[k].op = "GenerateMIDI" /\ ~log[k].arg.nil

GenCall == CHOOSE k \in 1..Len(log) : log[k].op = "GenerateMIDI"

\* the steps passed, the track written and the converter's ticksPerStep
GenArgSteps == log[GenCall].arg.Steps
GenTrack == log[GenCall].ret.data.smf.tracks[1]
GenTicksPerStep == m.ticksPerQuarter \div 4

\* the positions in the track of the events with status byte st, in order
EventsWithStatus(track, st) ==
    SelectSeq([e \in 1..Len(track) |-> e],
              LAMBDA e : track[e].Message[1] = st)

\* the 0-based indices of the gated steps that are not tied, in order
GatedUntied(steps) ==
    SelectSeq([i \in 1..Len(steps) |-> i - 1],
              LAMBDA i : steps[i + 1].Gate /\ ~steps[i + 1].Tie)

\* C24: the track has a note-on for exactly the gated, non-tied steps, in step
\* order, and the note-on of step i lies at absolute tick i * ticksPerStep,
\* the absolute tick being the sum of the delta times written so far, none of
\* which has wrapped below zero (carry 0).
C24_NoteOnTicks ==
    Generated =>
        LET ons == EventsWithStatus(GenTrack, 144)
            sel == GatedUntied(GenArgSteps)
        IN  /\ Len(ons) = Len(sel)
            /\ \A j \in 1..Len(ons) :
                /\ j <= Len(sel)
                /\ GenTrack[ons[j]].Message[2] = GenArgSteps[sel[j] + 1].Note
                /\ TickAt(GenTrack, ons[j]) =
                        [carry |-> 0, low |-> sel[j] * GenTicksPerStep]


\* the 0-based indices of the steps a note is emitted for, in order: the j-th
\* note-on of the track belongs to the j-th of them
EmittedSteps(steps) ==
    SelectSeq([i \in 1..Len(steps) |-> i - 1],
              LAMBDA i : steps[i + 1].Gate /\ (i = 0 \/ ~steps[i + 1].Tie))

\* r: the number of steps right after step i (0-based) that are tie and gate
TieRun(steps, i) ==
    CHOOSE r \in 0..Len(steps) :
        /\ i + r < Len(steps)
        /\ \A k \in (i + 1)..(i + r) : steps[k + 1].Tie /\ steps[k + 1].Gate
        /\ (i + r + 1 < Len(steps) =>
                ~(steps[i + r + 2].Tie /\ steps[i + r + 2].Gate))

\* every note-on of the track is followed at once by the note-off of its key
NoteOffFollows ==
    LET ons == EventsWithStatus(GenTrack, 144)
    IN  /\ Len(ons) = Len(EmittedSteps(GenArgSteps))
        /\ \A j \in 1..Len(ons) :
            /\ ons[j] < Len(GenTrack)
            /\ GenTrack[ons[j] + 1].Message[1] = 128
            /\ GenTrack[ons[j] + 1].Message[2] = GenTrack[ons[j]].Message[2]

\* the distance from the j-th note-on to its note-off
NoteLength(j) == GenTrack[EventsWithStatus(GenTrack, 144)[j] + 1].Delta

MaxTick(a, b) == IF a > b THEN a ELSE b

\* C26: the sum of all the delta times of the track, none of which has wrapped
\* below zero, is the larger of stepCount * ticksPerStep (16 * ticksPerStep
\* for a pattern with no steps) and the tick of the last note-off.
C26_TrackDuration ==
    Generated =>
        LET offs == EventsWithStatus(GenTrack, 128)
            lastOff == IF Len(offs) = 0 THEN 0
                       ELSE TickAt(GenTrack, offs[Len(offs)]).low
            stepCount == IF Len(GenArgSteps) = 0 THEN 16 ELSE Len(GenArgSteps)
        IN  TickAt(GenTrack, Len(GenTrack)) =
                [carry |-> 0,
                 low |-> MaxTick(stepCount * GenTicksPerStep, lastOff)]

\* step i (0-based) is sounded: some note-on lies at tick i * ticksPerStep, or
\* some note started before it and ends after it (ticks modulo 2^32)
Sounded(i) ==
    \E j \in 1..Len(EventsWithStatus(GenTrack, 144)) :
        LET e == EventsWithStatus(GenTrack, 144)[j]
            on == TickAt(GenTrack, e).low
            off == TickAt(GenTrack, e + 1).low
            tick == i * GenTicksPerStep
        IN  on = tick \/ (on < tick /\ tick < off)

\* C28: every gated step of the pattern is sounded in the track: it starts its
\* own note-on at tick i * ticksPerStep or lies inside the span of a note
\* started at an earlier step.
C28_GatedStepsSounded ==
    Generated =>
        \A i \in 0..(Len(GenArgSteps) - 1) :
            GenArgSteps[i + 1].Gate => Sounded(i)


----------------------------------------------------------------------------
(* The encoders and the caller's pattern (calls of Spec)                   *)

Encoders == {"GenerateMIDI", "GenerateSeq", "GenerateSyx"}

\* C27: GenerateMIDI, GenerateSeq and GenerateSyx leave every field of the
\* pattern passed in (name, steps, length, tempo, deviceId) unchanged, for
\* every pattern, including one whose tempo is zero or negative.
C27_PatternUnchanged ==
    \A k \in 1..Len(log) :
        log[k].op \in Encoders => log[k].ret.pattern = ArgPattern(k)


----------------------------------------------------------------------------
(* The terminal user interface (pkg/tui/tui.go).  Under SpecTui the        *)
(* variable m holds the fields of the tea Model, cur what the bubbletea    *)
(* runtime holds (commands running, messages in flight, whether it has     *)
(* quit), log the last call of Update, and files the file system.          *)

StateMenu == 0
StateFilePicker == 1
StateConverting == 2
StateResult == 3

MenuItem(title, from, to) ==
    [Title |-> title, FromFormat |-> from, ToFormat |-> to]

menuItems ==
    <<MenuItem("MIDI -> SEQ", "midi", "seq"),
      MenuItem("SEQ -> MIDI", "seq", "midi"),
      MenuItem("MIDI -> SYX", "midi", "syx"),
      MenuItem("SYX -> MIDI", "syx", "midi"),
      MenuItem("SEQ -> SYX", "seq", "syx"),
      MenuItem("SYX -> SEQ", "syx", "seq"),
      MenuItem("Exit", "", "")>>

\* extensions, written as paths are
DotMid == <<".", "m", "i", "d">>
DotMidi == <<".", "m", "i", "d", "i">>
DotSeq == <<".", "s", "e", "q">>
DotSyx == <<".", "s", "y", "x">>

\* New(): the model the program starts with
New ==
    [state |-> StateMenu,
     menuIndex |-> 0,
     filePicker |-> [AllowedTypes |-> {DotMid, DotMidi, DotSeq, DotSyx},
                     Height |-> 0],
     selectedFile |-> <<>>,
     outputFile |-> <<>>,
     conversion |-> MenuItem("", "", ""),
     err |-> NoErr,
     width |-> 0,
     height |-> 0]

\* messages
KeyMsg(key) == [type |-> "key", key |-> key]
WindowSizeMsg(w, h) == [type |-> "size", Width |-> w, Height |-> h]
TickMsg == [type |-> "tick"]
conversionDoneMsg(outputFile, err) ==
    [type |-> "done", outputFile |-> outputFile, err |-> err]

\* commands: tea.Quit, spinner.Tick, what the file picker returns, and the
\* function performConversion returns, which keeps its copy of the model
Quit == [kind |-> "quit"]
Tick == [kind |-> "tick"]
PickerCmd == [kind |-> "picker"]
ConversionCmd(model) ==
    [kind |-> "convert", selectedFile |-> model.selectedFile,
     conversion |-> model.conversion]

\* what an Update call returns
Returns(model, cmds) == [m |-> model, cmds |-> cmds]

updateMenu(model, key) ==
    IF key \in {"up", "k"}
    THEN Returns([model EXCEPT !.menuIndex = IF @ > 0 THEN @ - 1 ELSE @], {})
    ELSE IF key \in {"down", "j"}
    THEN Returns([model EXCEPT !.menuIndex =
                    IF @ < Len(menuItems) - 1 THEN @ + 1 ELSE @], {})
    ELSE IF key = "enter"
    THEN IF model.menuIndex = Len(menuItems) - 1
         THEN Returns(model, {Quit})
         ELSE LET item == menuItems[model.menuIndex + 1]
                  types == CASE item.FromFormat = "midi" -> {DotMid, DotMidi}
                             [] item.FromFormat = "seq" -> {DotSeq}
                             [] item.FromFormat = "syx" -> {DotSyx}
                             [] OTHER -> model.filePicker.AllowedTypes
              IN  Returns([model EXCEPT !.conversion = item,
                                        !.state = StateFilePicker,
                                        !.filePicker.AllowedTypes = types],
                          {PickerCmd})
    ELSE IF key \in {"q", "ctrl+c"} THEN Returns(model, {Quit})
    ELSE Returns(model, {})

\* updateResult leaving the selected file in the model
updateResult_KeepsFile(model, key) ==
    IF key \in {"enter", "esc"}
    THEN Returns([model EXCEPT !.state = StateMenu, !.err = NoErr,
                               !.outputFile = <<>>], {})
    ELSE IF key \in {"q", "ctrl+c"} THEN Returns(model, {Quit})
    ELSE Returns(model, {})

updateResult(model, key) ==
    IF key \in {"enter", "esc"}
    THEN Returns([model EXCEPT !.state = StateMenu, !.err = NoErr,
                               !.selectedFile = <<>>, !.outputFile = <<>>],
                 {})
    ELSE IF key \in {"q", "ctrl+c"} THEN Returns(model, {Quit})
    ELSE Returns(model, {})

\* Update(msg); pick is what filePicker.DidSelectFile(msg) returns
Update(model, msg, pick) ==
    IF model.state = StateFilePicker
    THEN IF msg.type = "key" /\ msg.key = "esc"
         THEN Returns([model EXCEPT !.state = StateMenu], {})
         ELSE IF msg.type = "key" /\ msg.key \in {"q", "ctrl+c"}
         THEN Returns(model, {Quit})
         ELSE IF pick.didSelect
         THEN LET selected == [model EXCEPT !.selectedFile = pick.path,
                                            !.state = StateConverting]
              IN  Returns(selected, {Tick, ConversionCmd(selected)})
         ELSE Returns(model, {PickerCmd})
    ELSE CASE msg.type = "size" ->
                Returns([model EXCEPT !.width = msg.Width,
                                      !.height = msg.Height,
                                      !.filePicker.Height = msg.Height - 10],
                        {})
           [] msg.type = "key" ->
                IF model.state = StateMenu THEN updateMenu(model, msg.key)
                ELSE IF model.state = StateResult
                THEN updateResult(model, msg.key)
                ELSE Returns(model, {})
           [] msg.type = "tick" -> Returns(model, {Tick})
           [] msg.type = "done" ->
                Returns([model EXCEPT !.state = StateResult,
                                      !.outputFile = msg.outputFile,
                                      !.err = msg.err], {})

\* the conversion and the extension of the switch in performConversion
ConversionOf(item) ==
    LET name == <<item.FromFormat, item.ToFormat>>
    IN  CASE name = <<"midi", "seq">> -> [conv |-> "MIDIToSeq", ext |-> DotSeq]
          [] name = <<"seq", "midi">> -> [conv |-> "SeqToMIDI", ext |-> DotMid]
          [] name = <<"midi", "syx">> -> [conv |-> "MIDIToSyx", ext |-> DotSyx]
          [] name = <<"syx", "midi">> -> [conv |-> "SyxToMIDI", ext |-> DotMid]
          [] name = <<"seq", "syx">> -> [conv |-> "SeqToSyx", ext |-> DotSyx]
          [] name = <<"syx", "seq">> -> [conv |-> "SyxToSeq", ext |-> DotSeq]
          [] OTHER -> [conv |-> "none", ext |-> <<>>]

\* strings.TrimSuffix(path, filepath.Ext(path))
TrimExt(path) == SubSeq(path, 1, Len(path) - Len(Ext(path)))

\* what the function returns after the conversion returned r and os.WriteFile
\* returned w
ConversionResult(r, w, outputFile, fs) ==
    IF r.panic
    THEN [msg |-> conversionDoneMsg(<<>>, NoErr), files |-> fs, panic |-> TRUE]
    ELSE IF r.err # NoErr
    THEN [msg |-> conversionDoneMsg(<<>>, r.err), files |-> fs,
          panic |-> FALSE]
    ELSE IF w.err # NoErr
    THEN [msg |-> conversionDoneMsg(<<>>, w.err), files |-> w.files,
          panic |-> FALSE]
    ELSE [msg |-> conversionDoneMsg(outputFile, NoErr), files |-> w.files,
          panic |-> FALSE]

\* the result r of the conversion of the switch, written to outputFile
Converted(r, outputFile, fs) ==
    ConversionResult(r, WriteFile(fs, outputFile, r.data), outputFile, fs)

\* the function performConversion returns, run on the file system fs: the
\* message it returns and the file system afterwards, or a panic
performConversion(cmd, fs) ==
    IF ~fs[cmd.selectedFile].exists
    THEN [msg |-> conversionDoneMsg(<<>>, "read failed"), files |-> fs,
          panic |-> FALSE]
    ELSE IF ConversionOf(cmd.conversion).conv = "none"
    THEN Converted([data |-> NilData, err |-> NoErr, panic |-> FALSE],
                   TrimExt(cmd.selectedFile), fs)
    ELSE Converted(Convert(ConversionOf(cmd.conversion).conv, "td3",
                           fs[cmd.selectedFile].data),
                   TrimExt(cmd.selectedFile)
                        \o ConversionOf(cmd.conversion).ext,
                   fs)

\* file names under SpecTui
PathOf(stem, ext) == <<stem>> \o ext

\* a writable file holding data, and a path where no file can be created
FileWith(data) ==
    [exists |-> TRUE, data |-> data, writable |-> TRUE, room |-> -1]
ReadOnlyDir == [NoFile EXCEPT !.writable = FALSE]

\* the directory the program runs in: a.mid converts, a.seq is missing or
\* truncated, c.midi has a resolution of 3, d.syx converts but d.mid is on a
\* full device and d.seq cannot be created, no more than a.syx
TuiFiles ==
    {[p \in {PathOf(stem, ext) : stem \in {"a", "c", "d"},
                                 ext \in {DotMid, DotMidi, DotSeq, DotSyx}} |->
        CASE p = PathOf("a", DotMid) ->
                FileWith(MidiFile(TRUE, 480,
                                  << <<Ev(0, NoteOnMsg(0, 60, 100))>> >>))
          [] p = PathOf("a", DotSeq) -> aSeq
          [] p = PathOf("a", DotSyx) -> ReadOnlyDir
          [] p = PathOf("c", DotMidi) ->
                FileWith(MidiFile(TRUE, 3,
                                  << <<Ev(0, NoteOnMsg(0, 60, 100))>> >>))
          [] p = PathOf("d", DotSyx) ->
                FileWith(Raw(GenerateSyx(PatternOf(
                    <<StepOf(48, TRUE, FALSE, TRUE, FALSE, 100)>>)).data))
          [] p = PathOf("d", DotMid) -> [NoFile EXCEPT !.room = 2]
          [] p = PathOf("d", DotSeq) -> ReadOnlyDir
          [] OTHER -> NoFile]
     : aSeq \in {NoFile, FileWith(Raw(<<35, 152, 84, 118>>))}}

\* the keys pressed and the window sizes reported
Keys == {"up", "down", "k", "j", "enter", "esc", "q", "ctrl+c", "x"}
WindowSizes == {WindowSizeMsg(80, 24)}

\* the bubbletea runtime: the conversion commands running, the messages they
\* have returned and that Update has not received yet, and whether the
\* program has ended (tea.Quit, or a panic in a command)
Runtime(cmds, msgs, ended) == [cmds |-> cmds, msgs |-> msgs, ended |-> ended]

InitTui ==
    /\ input = [kind |-> "tui"]
    /\ cur = Runtime({}, {}, "no")
    /\ log = <<>>
    /\ m = New
    /\ device = "td3"
    /\ files \in TuiFiles

\* the runtime has called Update(msg) and r is what it returned: the model
\* returned replaces m, tea.Quit ends the program and a conversion command
\* starts running
Updated(msg, r) ==
    /\ m' = r.m
    /\ log' = <<[op |-> "Update", msg |-> msg, state |-> m.state,
                 cmds |-> r.cmds]>>
    /\ cur' = [cur EXCEPT
                 !.cmds = @ \cup {c \in r.cmds : c.kind = "convert"},
                 !.msgs = @ \ {msg},
                 !.ended = IF Quit \in r.cmds THEN "quit" ELSE @]
    /\ UNCHANGED <<input, device, files>>

Deliver(msg, pick) ==
    /\ cur.ended = "no"
    /\ Updated(msg, Update(m, msg, pick))

NoPick == [didSelect |-> FALSE, path |-> <<>>]

\* what the file picker can select on enter: a file of an allowed type
Picks ==
    {NoPick}
    \cup {[didSelect |-> TRUE, path |-> p] :
            p \in {p \in DOMAIN files :
                    files[p].exists /\ Ext(p) \in m.filePicker.AllowedTypes}}

KeyPress ==
    \E key \in Keys :
        \E pick \in (IF key = "enter" THEN Picks ELSE {NoPick}) :
            Deliver(KeyMsg(key), pick)

WindowSize == \E msg \in WindowSizes : Deliver(msg, NoPick)

SpinnerTick == Deliver(TickMsg, NoPick)

\* the command cmd has run to its end and returned r
Ran(cmd, r) ==
    /\ files' = r.files
    /\ cur' = IF r.panic
              THEN [cur EXCEPT !.cmds = @ \ {cmd}, !.ended = "panic"]
              ELSE [cur EXCEPT !.cmds = @ \ {cmd}, !.msgs = @ \cup {r.msg}]
    /\ UNCHANGED <<input, log, m, device>>

\* a conversion command runs to its end
RunConversion ==
    /\ cur.ended = "no"
    /\ \E cmd \in cur.cmds : Ran(cmd, performConversion(cmd, files))

ConversionDone == \E msg \in cur.msgs : Deliver(msg, NoPick)

NextTui ==
    \/ KeyPress
    \/ WindowSize
    \/ SpinnerTick
    \/ RunConversion
    \/ ConversionDone

SpecTui == InitTui /\ [][NextTui]_vars



\* C29: a 'q' key press makes Update return the quit command in each of the
\* four states StateMenu, StateFilePicker, StateConverting and StateResult.
C29_QuitInEveryState ==
    (log # <<>> /\ log[1].msg = KeyMsg("q")) => Quit \in log[1].cmds

\* a step in which Update received a conversion-done message
DoneReceived == \E msg \in cur.msgs : msg \notin cur'.msgs

\* the message of the Update call of a step that changes the model
LastMsg == log'[1].msg

\* C30: under any sequence of key, tick, window-size and conversion-done
\* messages the state changes only Menu -> FilePicker (enter on a conversion
\* item), FilePicker -> Menu (esc), FilePicker -> Converting (a file is
\* selected; exactly one conversion is then running), Converting -> Result
\* (conversion-done message) and Result -> Menu (enter or esc; err,
\* selectedFile and outputFile are cleared); a conversion-done message is only
\* received in StateConverting, and menuIndex stays in 0..len(menuItems)-1.
C30_Transitions ==
    [][/\ m'.state # m.state =>
            \/ /\ m.state = StateMenu /\ m'.state = StateFilePicker
               /\ LastMsg = KeyMsg("enter")
               /\ m.menuIndex < Len(menuItems) - 1
               /\ m'.conversion = menuItems[m.menuIndex + 1]
            \/ /\ m.state = StateFilePicker /\ m'.state = StateMenu
               /\ LastMsg = KeyMsg("esc")
            \/ /\ m.state = StateFilePicker /\ m'.state = StateConverting
               /\ m'.selectedFile # <<>>
               /\ cur.cmds = {} /\ cur.msgs = {}
               /\ cur'.cmds = {ConversionCmd(m')} /\ cur'.msgs = {}
            \/ /\ m.state = StateConverting /\ m'.state = StateResult
               /\ LastMsg.type = "done"
               /\ DoneReceived
            \/ /\ m.state = StateResult /\ m'.state = StateMenu
               /\ LastMsg \in {KeyMsg("enter"), KeyMsg("esc")}
               /\ m'.err = NoErr
               /\ m'.selectedFile = <<>>
               /\ m'.outputFile = <<>>
       /\ DoneReceived => m.state = StateConverting /\ m'.state = StateResult
       /\ Cardinality(cur'.cmds) + Cardinality(cur'.msgs) <= 1
       /\ m'.menuIndex \in 0..(Len(menuItems) - 1)
      ]_vars

\* a.mid has been converted to a.seq and the user is back in the menu after
\* pressing enter on the result
C30_Witness ==
    /\ m.state = StateMenu
    /\ m.conversion = menuItems[1]
    /\ m.selectedFile = <<>> /\ m.outputFile = <<>>
    /\ log = <<[op |-> "Update", msg |-> KeyMsg("enter"),
                state |-> StateResult, cmds |-> {}]>>
    /\ files[PathOf("a", DotSeq)].exists
    /\ Len(files[PathOf("a", DotSeq)].data.bytes) = 146
    /\ cur = Runtime({}, {}, "no")

====
